---- MODULE Spec2Model ----
(***************************************************************************)
(* Patch generation engine of game-of-grids (src/patches_creator.py,       *)
(* src/utils_file.py, src/config_file.py).                                 *)
(*                                                                         *)
(* Coordinates.  Every distance the engine uses is km_to_degrees(km, lat)  *)
(* at (nearly) one latitude, so the model measures longitude and latitude  *)
(* in the unit u = km_to_degrees(1, mean latitude): the grid step is       *)
(* GRID_SIZE_KM units, the DBSCAN radius CLUSTER_DISTANCE_KM units.  Input *)
(* points lie on the integer lattice of that unit.  Polygon vertices are   *)
(* kept multiplied by K (the lcm of all coordinate differences), which     *)
(* makes every clipping intersection an integer and every area comparison  *)
(* exact.  calculate_area_km2 of a cell is taken at low latitude, where    *)
(* one square unit is one km2.                                             *)
(***************************************************************************)
EXTENDS Integers, Sequences, FiniteSets, TLC

VARIABLES errors, pc, error_points, patches, lat, lon, clusters, ci,
          fn_args, fn_result,
          cells, examined, decided, previous,
          osmose_patches, osmose_errors, import_batches, batch_id, counts,
          patch_index, patch_outcomes, operations_run, transaction

\* The locals of one call of create_patches_from_errors that the result
\* does not show: 'cells' lists the cells the sweep has visited with the
\* cell_errors of each, 'examined' the clusters the overlap loop has
\* looked at with the value of 'overlap' for each.  'decided' remembers
\* the outcomes of overlap tests that the model does not compute, and
\* 'previous' the argument and the result of an earlier call on the same
\* object.
callVars == <<cells, examined, decided, previous>>

\* The tables of the database (src/db_schema.py), self.batch_id and the
\* locals of insert_patches: the three counters, the place of the loop in
\* 'patches', and for each patch gone through what became of it;
\* 'operations_run' lists the operations that run_maintenance
\* (src/maintenance.py) has carried out, and 'transaction' is the state of
\* the transaction of the connection of insert_errors
\* (src/osmose_issues_loader.py).
dbVars == <<osmose_patches, osmose_errors, import_batches, batch_id, counts,
            patch_index, patch_outcomes, operations_run, transaction>>

vars == <<errors, pc, error_points, patches, lat, lon, clusters, ci,
          fn_args, fn_result, cells, examined, decided, previous,
          osmose_patches, osmose_errors, import_batches, batch_id, counts,
          patch_index, patch_outcomes, operations_run, transaction>>

(***************************************************************************)
(* Bounds of the model.                                                    *)
(***************************************************************************)
MaxLon == 6
MaxPoints == 4
MaxIds == 4
MaxErrorCount == 32
MaxAreaHalves == 62

(***************************************************************************)
(* PATCH_CONFIG and OSMOSE_CONFIG (src/config_file.py).                    *)
(***************************************************************************)
TARGET_PATCH_AREA_KM2 == 15
MIN_PATCH_AREA_KM2 == 5
MAX_PATCH_AREA_KM2 == 30
CLUSTER_DISTANCE_KM == 3
MIN_ERRORS_PER_PATCH == 3
GRID_SIZE_KM == 4

\* Latitudes 0..MaxLat: the points span at most one grid step of
\* latitude, the sweep has one row of cells.
MaxLat == GRID_SIZE_KM

(***************************************************************************)
(* Small arithmetic helpers.                                               *)
(***************************************************************************)
Abs(x) == IF x < 0 THEN -x ELSE x

Min2(a, b) == IF a <= b THEN a ELSE b

Max2(a, b) == IF a >= b THEN a ELSE b

SetMin(S) == CHOOSE x \in S : \A y \in S : x <= y

SetMax(S) == CHOOSE x \in S : \A y \in S : x >= y

RECURSIVE Gcd(_, _)
Gcd(a, b) == IF b = 0 THEN a ELSE Gcd(b, a % b)

RECURSIVE LcmUpTo(_)
LcmUpTo(n) == IF n <= 1 THEN 1 ELSE
              LET l == LcmUpTo(n - 1) IN (l * n) \div Gcd(l, n)

\* Scale of polygon vertices: every coordinate difference of two lattice
\* points divides K.
K == LcmUpTo(Max2(MaxLon, MaxLat))

(***************************************************************************)
(* Planar geometry (the shapely calls of patches_creator.py).  A point is  *)
(* <<x, y>>; a polygon is the sequence of its vertices, counter-clockwise, *)
(* without the closing repetition of the first vertex.                     *)
(***************************************************************************)
Cross(o, a, b) == (a[1] - o[1]) * (b[2] - o[2]) - (a[2] - o[2]) * (b[1] - o[1])

\* c lies on the closed segment [a, b] (given that a, b, c are collinear).
Between(a, b, c) ==
    /\ Min2(a[1], b[1]) <= c[1] /\ c[1] <= Max2(a[1], b[1])
    /\ Min2(a[2], b[2]) <= c[2] /\ c[2] <= Max2(a[2], b[2])

\* All points on one line (or fewer than two distinct points): the convex
\* hull is then a LineString or a Point, of area 0.
Degenerate(S) == \A a \in S, b \in S, c \in S : Cross(a, b, c) = 0

\* <<a, b>> is a counter-clockwise edge of the convex hull of S.
HullEdge(S, a, b) ==
    /\ a # b
    /\ \A c \in S \ {a, b} :
          \/ Cross(a, b, c) > 0
          \/ Cross(a, b, c) = 0 /\ Between(a, b, c)

HullNext(S, a) == CHOOSE b \in S : HullEdge(S, a, b)

\* The lowest of the leftmost points is always a hull vertex.
HullStart(S) ==
    LET x0 == SetMin({p[1] : p \in S})
        y0 == SetMin({p[2] : p \in {q \in S : q[1] = x0}})
    IN  <<x0, y0>>

RECURSIVE HullWalk(_, _, _)
HullWalk(S, start, cur) ==
    LET nxt == HullNext(S, cur)
    IN  IF nxt = start THEN <<cur>> ELSE <<cur>> \o HullWalk(S, start, nxt)

\* MultiPoint(points).convex_hull, as a polygon; <<>> when the hull has no
\* area.
ConvexHull(S) ==
    IF S = {} \/ Degenerate(S) THEN <<>>
    ELSE HullWalk(S, HullStart(S), HullStart(S))

ScalePoint(p) == <<K * p[1], K * p[2]>>

ScalePolygon(poly) == [i \in 1..Len(poly) |-> ScalePoint(poly[i])]

\* box(minx, miny, maxx, maxy), in lattice units.
Box(minx, miny, maxx, maxy) ==
    <<<<minx, miny>>, <<maxx, miny>>, <<maxx, maxy>>, <<minx, maxy>>>>

\* Twice the area of a polygon (shoelace sum), in the units of its vertices.
RECURSIVE Shoelace(_, _)
Shoelace(poly, i) ==
    IF i > Len(poly) THEN 0
    ELSE LET p == poly[i]
             q == poly[IF i = Len(poly) THEN 1 ELSE i + 1]
         IN  (p[1] * q[2] - q[1] * p[2]) + Shoelace(poly, i + 1)

TwiceArea(poly) == IF Len(poly) < 3 THEN 0 ELSE Abs(Shoelace(poly, 1))

\* A closed half-plane: axis 1 (x) or 2 (y), bound, and side (1: coordinate
\* >= bound, -1: coordinate <= bound).
InsideHalf(p, h) == h.side * (p[h.axis] - h.bound) >= 0

\* The point where segment [p, q] meets the line of h.
MeetHalf(p, q, h) ==
    LET a == h.axis
        o == 3 - h.axis
        v == p[o] + ((q[o] - p[o]) * (h.bound - p[a])) \div (q[a] - p[a])
    IN  IF a = 1 THEN <<h.bound, v>> ELSE <<v, h.bound>>

\* One pass of Sutherland-Hodgman clipping: vertices i..Len(poly).
RECURSIVE ClipFrom(_, _, _)
ClipFrom(poly, h, i) ==
    IF i > Len(poly) THEN <<>>
    ELSE LET cur == poly[i]
             prev == poly[IF i = 1 THEN Len(poly) ELSE i - 1]
             here ==
                 IF InsideHalf(cur, h)
                 THEN IF InsideHalf(prev, h) THEN <<cur>>
                      ELSE <<MeetHalf(prev, cur, h), cur>>
                 ELSE IF InsideHalf(prev, h) THEN <<MeetHalf(prev, cur, h)>>
                      ELSE <<>>
         IN  here \o ClipFrom(poly, h, i + 1)

ClipHalf(poly, h) == IF Len(poly) = 0 THEN <<>> ELSE ClipFrom(poly, h, 1)

\* cluster_polygon.intersection(rectangle), both in K-scaled coordinates;
\* rect is <<minx, miny, maxx, maxy>>.
ClipToRect(poly, rect) ==
    ClipHalf(ClipHalf(ClipHalf(ClipHalf(poly,
        [axis |-> 1, bound |-> rect[1], side |-> 1]),
        [axis |-> 2, bound |-> rect[2], side |-> 1]),
        [axis |-> 1, bound |-> rect[3], side |-> -1]),
        [axis |-> 2, bound |-> rect[4], side |-> -1])

\* contains() that also holds on the boundary.
BoxContainsMutant(minx, miny, maxx, maxy, p) ==
    /\ minx <= p[1] /\ p[1] <= maxx
    /\ miny <= p[2] /\ p[2] <= maxy

\* cell_polygon.contains(point): the point lies in the interior of the
\* box, never on its boundary.
BoxContains(minx, miny, maxx, maxy, p) ==
    /\ minx < p[1] /\ p[1] < maxx
    /\ miny < p[2] /\ p[2] < maxy

(***************************************************************************)
(* Strings.  A string is the sequence of its characters; sorted() and the  *)
(* comparison of str order them by code point.                             *)
(***************************************************************************)
CharCode ==
    ("-" :> 45) @@ ("0" :> 48) @@ ("1" :> 49) @@ ("2" :> 50) @@ ("3" :> 51) @@ ("4" :> 52)
    @@ ("5" :> 53) @@ ("6" :> 54) @@ ("7" :> 55) @@ ("8" :> 56) @@ ("9" :> 57)
    @@ ("D" :> 68) @@ ("E" :> 69) @@ ("G" :> 71) @@ ("K" :> 75) @@ ("M" :> 77)
    @@ ("N" :> 78) @@ ("n" :> 110) @@ ("o" :> 111)
    @@ ("R" :> 82) @@ ("Z" :> 90) @@ ("_" :> 95) @@ ("a" :> 97) @@ ("b" :> 98)
    @@ ("c" :> 99) @@ ("d" :> 100) @@ ("e" :> 101) @@ ("f" :> 102)

\* s < t for Python str: the first differing character decides, a proper
\* prefix is smaller.
RECURSIVE StrLess(_, _)
StrLess(s, t) ==
    IF t = <<>> THEN FALSE
    ELSE IF s = <<>> THEN TRUE
    ELSE IF CharCode[Head(s)] # CharCode[Head(t)]
         THEN CharCode[Head(s)] < CharCode[Head(t)]
         ELSE StrLess(Tail(s), Tail(t))

\* Insert x into the sorted list l, after the elements equal to it.
RECURSIVE InsertSorted(_, _)
InsertSorted(x, l) ==
    IF l = <<>> THEN <<x>>
    ELSE IF StrLess(x, Head(l)) THEN <<x>> \o l
    ELSE <<Head(l)>> \o InsertSorted(x, Tail(l))

\* sorted(list of str)
RECURSIVE Sorted(_)
Sorted(l) ==
    IF l = <<>> THEN <<>>
    ELSE InsertSorted(l[Len(l)], Sorted(SubSeq(l, 1, Len(l) - 1)))

SeqToSet(l) == {l[i] : i \in 1..Len(l)}

\* The subsequence of l at the indices in I, in increasing order.
RECURSIVE SelectIdx(_, _, _)
SelectIdx(l, I, i) ==
    IF i > Len(l) THEN <<>>
    ELSE (IF i \in I THEN <<l[i]>> ELSE <<>>) \o SelectIdx(l, I, i + 1)

(***************************************************************************)
(* create_patches_from_errors: the input records and their extraction.     *)
(***************************************************************************)
\* A field read with error.get(...) is <<>> when the record has no such
\* key (None) and <<v>> otherwise.  Python truth value: None, 0 and 0.0
\* are false, and so is the empty string.
TruthyNumber(f) == f # <<>> /\ f[1] # 0

\* The test of error_id at line 86 left out.
TruthyStringMutant(f) == TRUE

TruthyString(f) == f # <<>> /\ f[1] # <<>>

\* str(error_id), line 88.
StrOf(f) == IF f = <<>> THEN <<"N", "o", "n", "e">> ELSE f[1]

\* Lines 81-93: the records with lat, lon and error_id all true, in input
\* order; 'error' is the record itself.
ErrorPoints(errs) ==
    LET valid == {i \in 1..Len(errs) :
                    TruthyNumber(errs[i].lat) /\ TruthyNumber(errs[i].lon)
                    /\ TruthyString(errs[i].error_id)}
        idx == SelectIdx([i \in 1..Len(errs) |-> i], valid, 1)
    IN  [k \in 1..Len(idx) |->
            [id |-> StrOf(errs[idx[k]].error_id),
             lon |-> errs[idx[k]].lon[1],
             lat |-> errs[idx[k]].lat[1],
             error |-> errs[idx[k]]]]

PointOf(e) == <<e.lon, e.lat>>

Lons(eps) == {eps[i].lon : i \in 1..Len(eps)}

Lats(eps) == {eps[i].lat : i \in 1..Len(eps)}

\* km_to_degrees(PATCH_CONFIG['GRID_SIZE_KM'], avg_lat), in model units.
GridSizeDegrees == GRID_SIZE_KM

\* km_to_degrees(PATCH_CONFIG['CLUSTER_DISTANCE_KM'], mean(lats)).
EpsDegrees == CLUSTER_DISTANCE_KM

(***************************************************************************)
(* DBSCAN(eps, min_samples).fit_predict (scikit-learn): neighbourhoods are *)
(* closed balls, a core point has at least min_samples points in its       *)
(* neighbourhood (itself included), and clusters are grown from the core   *)
(* points in index order, labels counting from 0.  Here labels count from  *)
(* 1 and 0 is noise.                                                       *)
(***************************************************************************)
Neighbours(eps, i) ==
    {j \in 1..Len(eps) :
        (eps[i].lon - eps[j].lon) * (eps[i].lon - eps[j].lon)
      + (eps[i].lat - eps[j].lat) * (eps[i].lat - eps[j].lat)
      <= EpsDegrees * EpsDegrees}

IsCore(eps, i) == Cardinality(Neighbours(eps, i)) >= MIN_ERRORS_PER_PATCH

\* The points a depth-first expansion from the points of R labels: the
\* unlabelled neighbours of its core points, transitively.
RECURSIVE Expand(_, _, _)
Expand(eps, R, labelled) ==
    LET more == UNION {Neighbours(eps, c) : c \in {r \in R : IsCore(eps, r)}}
        R2 == R \cup (more \ labelled)
    IN  IF R2 = R THEN R ELSE Expand(eps, R2, labelled)

\* labels after the seeds i..n have been visited; lab maps a point to its
\* label (0: none yet), num is the next label.
RECURSIVE DbscanFrom(_, _, _, _)
DbscanFrom(eps, i, lab, num) ==
    IF i > Len(eps) THEN lab
    ELSE IF lab[i] # 0 \/ ~IsCore(eps, i)
         THEN DbscanFrom(eps, i + 1, lab, num)
         ELSE LET grown == Expand(eps, {i}, {j \in 1..Len(eps) : lab[j] # 0})
                  lab2 == [j \in 1..Len(eps) |->
                              IF j \in grown THEN num ELSE lab[j]]
              IN  DbscanFrom(eps, i + 1, lab2, num + 1)

FitPredict(eps) == DbscanFrom(eps, 1, [j \in 1..Len(eps) |-> 0], 1)

\* Lines 149-154: the dict of clusters, as the list of its items in
\* insertion order (the order in which the labels first occur among the
\* points); each cluster lists its points in input order.
RECURSIVE ClusterKeys(_, _, _)
ClusterKeys(labels, i, seen) ==
    IF i > Len(labels) THEN <<>>
    ELSE IF labels[i] = 0 \/ labels[i] \in seen
         THEN ClusterKeys(labels, i + 1, seen)
         ELSE <<labels[i]>> \o ClusterKeys(labels, i + 1, seen \cup {labels[i]})

\* Line 154 appending the first point to every cluster.
ClustersMutant(eps) ==
    LET labels == FitPredict(eps)
        keys == ClusterKeys(labels, 1, {})
    IN  [k \in 1..Len(keys) |->
            [label |-> keys[k],
             members |-> SelectIdx(eps, {j \in 1..Len(eps) :
                                           j = 1 \/ labels[j] = keys[k]}, 1)]]

Clusters(eps) ==
    LET labels == FitPredict(eps)
        keys == ClusterKeys(labels, 1, {})
    IN  [k \in 1..Len(keys) |->
            [label |-> keys[k],
             members |-> SelectIdx(eps, {j \in 1..Len(eps) : labels[j] = keys[k]}, 1)]]

(***************************************************************************)
(* Areas.  An area is a whole number of thousandths of a km2, the          *)
(* precision at which a patch carries its area_km2 (line 238).  Latitudes  *)
(* are rows of the lattice: the rows from 0 lie at the equator, where one  *)
(* square unit is one km2; the rows from PolarRow lie at 85 degrees, where *)
(* calculate_area_km2 (lon_factor = 111.32 cos(lat)) gives a square unit   *)
(* 4 cos(lat) / (1 + cos(lat))^2 = 0.295 km2.                              *)
(***************************************************************************)
AreaScale == 1000

BUFFER_SIZE_KM == 1

PolarRow == 25 * GRID_SIZE_KM

\* km2 (in thousandths) of one square unit around latitude row y.
UnitAreaMilli(y) == IF y >= PolarRow THEN 295 ELSE AreaScale

\* The largest squared distance of two lattice points.
MaxDistSq == (MaxLon * MaxLon) + (MaxLat * MaxLat)

\* math.sqrt(n) in thousandths, for the squared distances of the lattice.
SqrtMilli ==
    [n \in 0..MaxDistSq |->
        CHOOSE r \in 0..(AreaScale * (MaxLon + MaxLat)) :
            /\ r * r <= n * AreaScale * AreaScale
            /\ (r + 1) * (r + 1) > n * AreaScale * AreaScale]

DistSq(p, q) == (p[1] - q[1]) * (p[1] - q[1]) + (p[2] - q[2]) * (p[2] - q[2])

\* Length of the outline of a polygon, in thousandths of a unit.
RECURSIVE OutlineMilli(_, _)
OutlineMilli(poly, i) ==
    IF i > Len(poly) THEN 0
    ELSE SqrtMilli[DistSq(poly[i], poly[IF i = Len(poly) THEN 1 ELSE i + 1])]
         + OutlineMilli(poly, i + 1)

\* Length of the boundary of the convex hull of S; a hull that is a
\* segment is walked there and back.
HullOutlineMilli(S) ==
    IF ~Degenerate(S) THEN OutlineMilli(ConvexHull(S), 1)
    ELSE 2 * SqrtMilli[SetMax({DistSq(p, q) : p \in S, q \in S})]

\* Planar area, in thousandths of a square unit, of
\* convex_hull.buffer(r): the hull, a strip of width r along its outline
\* and the round corners, which make up one disc (a 64-gon of area
\* 3.137 r^2 with the 16 segments per quarter of buffer()).
HullBufferAreaMilli(S, r) ==
    (TwiceArea(ConvexHull(S)) * AreaScale) \div 2
    + HullOutlineMilli(S) * r
    + 3137 * r * r

\* calculate_area_km2(polygon) for a rectangle and for a buffered hull.
CalculateAreaKm2(g) ==
    IF g.kind = "box"
    THEN ((g.rect[3] - g.rect[1]) * (g.rect[4] - g.rect[2]) * AreaScale
          * UnitAreaMilli(g.rect[2])) \div AreaScale
    ELSE (HullBufferAreaMilli(g.points, BUFFER_SIZE_KM)
          * UnitAreaMilli(SetMin({p[2] : p \in g.points}))) \div AreaScale

\* calculate_area_km2(scale_polygon(polygon, sqrt(num / den))) for a
\* polygon of the given area: scaling about the centroid multiplies the
\* area by the square of the factor.
ScaledAreaKm2(area_km2, num, den) == (area_km2 * num) \div den

(***************************************************************************)
(* _create_patch_from_errors.  A geometry is                               *)
(*   [kind |-> "box", rect |-> <<minx, miny, maxx, maxy>>]  a rectangle,   *)
(*   [kind |-> "hull_buffer", points |-> S]  the convex hull of S widened  *)
(*       by BUFFER_SIZE_KM, and                                            *)
(*   [kind |-> "scaled", of |-> g]  g after scale_polygon to the target    *)
(*       area.                                                             *)
(* 'base' records whether a base polygon was supplied (the grid path) and  *)
(* is not a key of the patch dict; perimeter_km and centroid are left out. *)
(***************************************************************************)
IdsOf(eps) == [i \in 1..Len(eps) |-> eps[i].id]

\* Line 240 with one id not counted.
ErrorCountMutant(error_ids) == Len(error_ids) - 1

\* Line 240.
ErrorCount(error_ids) == Len(error_ids)

\* Lines 221 and 225 without the second branch.
NeedsScalingMutant(area_km2) == area_km2 < MIN_PATCH_AREA_KM2 * AreaScale

\* Lines 221 and 225: the area is outside [MIN, MAX].
NeedsScaling(area_km2) ==
    \/ area_km2 < MIN_PATCH_AREA_KM2 * AreaScale
    \/ area_km2 > MAX_PATCH_AREA_KM2 * AreaScale

\* Lines 188-248, the body of the try: 'value' is <<>> for None and
\* <<patch>> for a patch; 'raised' is <<e>> when exception e leaves the
\* body (15.0 / 0.0 at lines 222 and 226) and <<>> otherwise.
PatchOrException(eps, base_polygon) ==
    IF Len(eps) < MIN_ERRORS_PER_PATCH THEN [raised |-> <<>>, value |-> <<>>]
    ELSE LET polygon ==
                 IF base_polygon # <<>>
                 THEN [kind |-> "box", rect |-> base_polygon[1]]
                 ELSE [kind |-> "hull_buffer",
                       points |-> {PointOf(eps[i]) : i \in 1..Len(eps)}]
             area_km2 == CalculateAreaKm2(polygon)
         IN  IF NeedsScaling(area_km2) /\ area_km2 = 0
             THEN [raised |-> <<"ZeroDivisionError">>, value |-> <<>>]
             ELSE [raised |-> <<>>,
                   value |->
                     <<[geometry |-> IF NeedsScaling(area_km2)
                                     THEN [kind |-> "scaled", of |-> polygon]
                                     ELSE polygon,
                        osmose_ids |-> Sorted(IdsOf(eps)),
                        area_km2 |-> IF NeedsScaling(area_km2)
                                     THEN ScaledAreaKm2(area_km2,
                                              TARGET_PATCH_AREA_KM2 * AreaScale,
                                              area_km2)
                                     ELSE area_km2,
                        error_count |-> ErrorCount(IdsOf(eps)),
                        errors |-> [i \in 1..Len(eps) |-> eps[i].error],
                        base |-> IF base_polygon # <<>> THEN "grid" ELSE "cluster"]>>]

\* _create_patch_from_errors whose except clause hands the exception on.
CreatePatchFromErrorsMutant(eps, base_polygon) ==
    IF PatchOrException(eps, base_polygon).raised # <<>>
    THEN <<PatchOrException(eps, base_polygon)>>
    ELSE PatchOrException(eps, base_polygon).value

\* Lines 187-252: an exception is logged and None returned.
CreatePatchFromErrors(eps, base_polygon) ==
    IF PatchOrException(eps, base_polygon).raised # <<>> THEN <<>>
    ELSE PatchOrException(eps, base_polygon).value

(***************************************************************************)
(* _create_grid_patches: the grid sweep (lines 122-140).                   *)
(***************************************************************************)
\* A cell one unit too high.
CellRectMutant(lo, la) == <<lo, la, lo + GridSizeDegrees, la + GridSizeDegrees + 1>>

CellRect(lo, la) == <<lo, la, lo + GridSizeDegrees, la + GridSizeDegrees>>

\* Lines 129-132 collecting from the half-open cell [lo, lo + size) x
\* [la, la + size).
CellErrorsMutant(eps, lo, la) ==
    SelectIdx(eps,
              {i \in 1..Len(eps) :
                  /\ lo <= eps[i].lon /\ eps[i].lon < lo + GridSizeDegrees
                  /\ la <= eps[i].lat /\ eps[i].lat < la + GridSizeDegrees},
              1)

\* Lines 129-132.
CellErrors(eps, lo, la) ==
    SelectIdx(eps,
              {i \in 1..Len(eps) :
                  BoxContains(lo, la, lo + GridSizeDegrees,
                              la + GridSizeDegrees, PointOf(eps[i]))},
              1)

\* Line 134 asking for more than the minimum.
GridCellPatchesMutant(eps, lo, la) ==
    IF Len(CellErrors(eps, lo, la)) > MIN_ERRORS_PER_PATCH
    THEN CreatePatchFromErrors(CellErrors(eps, lo, la), <<CellRect(lo, la)>>)
    ELSE <<>>

\* Lines 134-137: the patches the cell at (lo, la) appends.
GridCellPatches(eps, lo, la) ==
    IF Len(CellErrors(eps, lo, la)) >= MIN_ERRORS_PER_PATCH
    THEN CreatePatchFromErrors(CellErrors(eps, lo, la), <<CellRect(lo, la)>>)
    ELSE <<>>

(***************************************************************************)
(* _create_grid_patches: the overlap check of a cluster (lines 158-175).   *)
(***************************************************************************)
ClusterPolygon(cluster_errors) ==
    ConvexHull({PointOf(cluster_errors[i]) : i \in 1..Len(cluster_errors)})

\* Lines 171-173 against a rectangle: intersection_area > 0.5 * area.
OverlapsRect(cluster_polygon, rect) ==
    LET hull == ScalePolygon(cluster_polygon)
        r == <<K * rect[1], K * rect[2], K * rect[3], K * rect[4]>>
    IN  2 * TwiceArea(ClipToRect(hull, r)) > TwiceArea(hull)

\* The overlap test with the intersection compared to half the area of the
\* existing patch instead of half the area of the cluster.
OverlapOutcomesMutant(cluster_polygon, existing) ==
    IF \E i \in 1..Len(existing) :
          /\ existing[i].geometry.kind = "box"
          /\ 2 * TwiceArea(ClipToRect(ScalePolygon(cluster_polygon),
                             [c \in 1..4 |-> K * existing[i].geometry.rect[c]]))
             > TwiceArea(ScalePolygon(Box(existing[i].geometry.rect[1],
                                          existing[i].geometry.rect[2],
                                          existing[i].geometry.rect[3],
                                          existing[i].geometry.rect[4])))
    THEN {TRUE}
    ELSE {FALSE}

\* Lines 171-173 against the rectangle r, given in multiples of 1/K.
OverlapsScaledRect(cluster_polygon, r) ==
    2 * TwiceArea(ClipToRect(ScalePolygon(cluster_polygon), r))
        > TwiceArea(ScalePolygon(cluster_polygon))

\* scale_factor = sqrt(TARGET / area) lies between FactorLow / 4 and
\* FactorHigh / 4.
FactorLow(area_km2) ==
    SetMax({q \in 0..64 : q * q * area_km2 <= 16 * TARGET_PATCH_AREA_KM2 * AreaScale})

FactorHigh(area_km2) ==
    SetMin({q \in 1..65 : q = 65 \/ q * q * area_km2 >= 16 * TARGET_PATCH_AREA_KM2 * AreaScale})

\* The rectangle, in multiples of 1/K, scaled about its centre by q / 4.
ScaledRect(rect, q) ==
    LET cx == (K * (rect[1] + rect[3])) \div 2
        cy == (K * (rect[2] + rect[4])) \div 2
        hx == (K * (rect[3] - rect[1]) * q) \div 8
        hy == (K * (rect[4] - rect[2]) * q) \div 8
    IN  <<cx - hx, cy - hy, cx + hx, cy + hy>>

RECURSIVE OuterRect(_)
\* A rectangle, in multiples of 1/K, that contains the polygon of the
\* patch.  A buffered hull lies within the bounding box of its points
\* widened by the buffer; its centroid lies within the bounding box of
\* the points, so that scaling it up by at most q / 4 moves no side of
\* the widened box by more than (q / 4 - 1) times the distance to the far
\* side of the box of the points, and scaling it down moves none outwards.
OuterRect(g) ==
    IF g.kind = "box" THEN ScaledRect(g.rect, 4)
    ELSE IF g.kind = "hull_buffer"
    THEN LET xs == {p[1] : p \in g.points}
             ys == {p[2] : p \in g.points}
         IN  <<K * (SetMin(xs) - BUFFER_SIZE_KM), K * (SetMin(ys) - BUFFER_SIZE_KM),
               K * (SetMax(xs) + BUFFER_SIZE_KM), K * (SetMax(ys) + BUFFER_SIZE_KM)>>
    ELSE LET q == FactorHigh(CalculateAreaKm2(g.of))
         IN  IF g.of.kind = "box" THEN ScaledRect(g.of.rect, q)
             ELSE IF q <= 4 THEN OuterRect(g.of)
             ELSE LET b == OuterRect(g.of)
                      dx == ((b[3] - b[1] - K * BUFFER_SIZE_KM) * (q - 4)) \div 4
                      dy == ((b[4] - b[2] - K * BUFFER_SIZE_KM) * (q - 4)) \div 4
                  IN  <<b[1] - dx, b[2] - dy, b[3] + dx, b[4] + dy>>

\* A rectangle, in multiples of 1/K, that the polygon of the patch
\* contains; <<>> when the model has none.
InnerRect(g) ==
    IF g.kind = "box" THEN <<ScaledRect(g.rect, 4)>>
    ELSE IF g.kind = "scaled" /\ g.of.kind = "box"
    THEN <<ScaledRect(g.of.rect, FactorLow(CalculateAreaKm2(g.of)))>>
    ELSE <<>>

\* The values 'overlap' can have after the loop of lines 163-175.  Against
\* a rectangular patch the test is computed.  The outline of a buffered or
\* rescaled patch is not a lattice polygon: the test against it is true
\* when it is true of a rectangle inside the patch, false when it is false
\* of a rectangle around the patch, and otherwise both outcomes are
\* allowed.
OverlapOutcomes(cluster_polygon, existing) ==
    IF TwiceArea(cluster_polygon) = 0 THEN {FALSE}
    ELSE IF \E i \in 1..Len(existing) :
               /\ InnerRect(existing[i].geometry) # <<>>
               /\ OverlapsScaledRect(cluster_polygon, InnerRect(existing[i].geometry)[1])
    THEN {TRUE}
    ELSE IF \A i \in 1..Len(existing) :
               ~OverlapsScaledRect(cluster_polygon, OuterRect(existing[i].geometry))
    THEN {FALSE}
    ELSE {TRUE, FALSE}

(***************************************************************************)
(* The inputs of the model: up to MaxPoints records at distinct lattice    *)
(* positions (longitude 0..MaxLon, latitude 0..MaxLat), listed by          *)
(* ascending position, with distinct error ids.                            *)
(***************************************************************************)
Digit == <<"1", "2", "3", "4", "5", "6", "7">>

\* The error_id of the i-th record: distinct for i in 1..7, and not in
\* sorted order.
ErrorIdOf(i) == <<"e", Digit[((3 * i) % 7) + 1]>>

NumPositions == (MaxLon + 1) * (MaxLat + 1)

PositionLon(p) == (p - 1) % (MaxLon + 1)

PositionLat(p) == (p - 1) \div (MaxLon + 1)

\* The record of the i-th row, at position number p.
RecordAt(i, p) ==
    [error_id |-> <<ErrorIdOf(i)>>,
     lon |-> <<PositionLon(p)>>,
     lat |-> <<PositionLat(p)>>]

\* The position number of a record.
PositionOf(r) == r.lat[1] * (MaxLon + 1) + r.lon[1] + 1

(***************************************************************************)
(* One call of create_patches_from_errors as a state machine.              *)
(*   pc = "load"     the caller is collecting the rows of 'errors'         *)
(*   pc = "start"    the call has its argument 'errors'                    *)
(*   pc = "grid"     inside the grid sweep, the cursor at (lat, lon)       *)
(*   pc = "resolve"  inside the loop over clusters.items(), at item ci     *)
(*   pc = "done"     'patches' has been returned                           *)
(***************************************************************************)
MinLon == SetMin(Lons(error_points))

MaxLonOf == SetMax(Lons(error_points))

MinLat == SetMin(Lats(error_points))

MaxLatOf == SetMax(Lats(error_points))

fnIdle == fn_args = <<>> /\ fn_result = <<>>

\* No call has been made on the object yet.
callIdle ==
    /\ cells = <<>>
    /\ examined = <<>>
    /\ decided = {}
    /\ previous = <<>>

\* The tables are empty and insert_patches is not running.
dbIdle ==
    /\ osmose_patches = <<>>
    /\ osmose_errors = <<>>
    /\ import_batches = <<>>
    /\ batch_id = <<>>
    /\ counts = <<>>
    /\ patch_index = 0
    /\ patch_outcomes = <<>>
    /\ operations_run = <<>>
    /\ transaction = "idle"

Init ==
    /\ errors = <<>>
    /\ pc = "load"
    /\ error_points = <<>>
    /\ patches = <<>>
    /\ lat = 0
    /\ lon = 0
    /\ clusters = <<>>
    /\ ci = 0
    /\ fnIdle
    /\ callIdle
    /\ dbIdle

\* The caller collects the argument 'errors' (in run, the rows that
\* load_unprocessed_errors fetched, lines 68-72): one more record, by
\* ascending position.
LoadRow ==
    /\ pc = "load"
    /\ Len(errors) < MaxPoints
    /\ \E p \in 1..NumPositions :
          /\ errors # <<>> => p > PositionOf(errors[Len(errors)])
          /\ errors' = Append(errors, RecordAt(Len(errors) + 1, p))
    /\ UNCHANGED <<pc, error_points, patches, lat, lon, clusters, ci,
                   fn_args, fn_result, callVars, dbVars>>

\* create_patches_from_errors is called with the list (run, line 447).
Call ==
    /\ pc = "load"
    /\ pc' = "start"
    /\ UNCHANGED <<errors, error_points, patches, lat, lon, clusters, ci,
                   fn_args, fn_result, callVars, dbVars>>

\* Lines 76-97: no record, or no record with coordinates and id; the
\* call returns [].
ReturnEmpty ==
    /\ pc = "start"
    /\ ErrorPoints(errors) = <<>>
    /\ error_points' = <<>>
    /\ patches' = <<>>
    /\ cells' = <<>>
    /\ examined' = <<>>
    /\ clusters' = <<>>
    /\ ci' = 0
    /\ pc' = "done"
    /\ UNCHANGED <<errors, lat, lon, fn_args, fn_result, decided, previous, dbVars>>

\* Line 120 handing on the list an earlier call left.
NewPatchesMutant(left) == left

\* Line 120: patches = [], whatever an earlier call left.
NewPatches(left) == <<>>

\* Lines 79-123: extraction, bounding box, start of the sweep.
Extract ==
    /\ pc = "start"
    /\ ErrorPoints(errors) # <<>>
    /\ error_points' = ErrorPoints(errors)
    /\ lat' = SetMin(Lats(ErrorPoints(errors)))
    /\ lon' = SetMin(Lons(ErrorPoints(errors)))
    /\ patches' = NewPatches(patches)
    /\ cells' = <<>>
    /\ examined' = <<>>
    /\ clusters' = <<>>
    /\ ci' = 0
    /\ pc' = "grid"
    /\ UNCHANGED <<errors, fn_args, fn_result, decided, previous, dbVars>>

\* Lines 126-139: one cell of the sweep.
GridCell ==
    /\ pc = "grid"
    /\ lat < MaxLatOf
    /\ lon < MaxLonOf
    /\ patches' = patches \o GridCellPatches(error_points, lon, lat)
    /\ cells' = Append(cells, [rect |-> CellRect(lon, lat),
                               cell_errors |-> CellErrors(error_points, lon, lat)])
    /\ lon' = lon + GridSizeDegrees
    /\ UNCHANGED <<errors, pc, error_points, lat, clusters, ci, fn_args, fn_result,
                   examined, decided, previous, dbVars>>

\* Lines 124-126, 140: the row is finished, the next one starts.
GridNextRow ==
    /\ pc = "grid"
    /\ lat < MaxLatOf
    /\ lon >= MaxLonOf
    /\ lat' = lat + GridSizeDegrees
    /\ lon' = MinLon
    /\ UNCHANGED <<errors, pc, error_points, patches, clusters, ci,
                   fn_args, fn_result, callVars, dbVars>>

\* Lines 142-154: the sweep is over; clustering of all the points.
RunDbscan ==
    /\ pc = "grid"
    /\ lat >= MaxLatOf
    /\ clusters' = Clusters(error_points)
    /\ ci' = 1
    /\ pc' = IF Clusters(error_points) = <<>> THEN "done" ELSE "resolve"
    /\ UNCHANGED <<errors, error_points, patches, lat, lon, fn_args, fn_result,
                   callVars, dbVars>>

\* The overlap test of these points against this list of patches has the
\* outcome b, or has not been made yet.
Undecided(points, existing, b) ==
    \A d \in decided :
        (d.points = points /\ d.existing = existing) => d.overlap = b

\* Lines 157-180: one item of clusters.items(); line 182 after the last.
\* An outcome of the overlap test that the model leaves open is the same
\* every time the same test is made.
ResolveCluster ==
    /\ pc = "resolve"
    /\ ci <= Len(clusters)
    /\ LET cluster_errors == clusters[ci].members
           cluster_points == {PointOf(cluster_errors[i]) : i \in 1..Len(cluster_errors)}
           outcomes == OverlapOutcomes(ClusterPolygon(cluster_errors), patches)
       IN  \E overlap \in outcomes :
              /\ Undecided(cluster_points, patches, overlap)
              /\ patches' = IF overlap THEN patches
                            ELSE patches \o CreatePatchFromErrors(cluster_errors, <<>>)
              /\ examined' = Append(examined, [label |-> clusters[ci].label,
                                               overlap |-> overlap])
              /\ decided' = IF outcomes = {TRUE, FALSE}
                            THEN decided \cup {[points |-> cluster_points,
                                                existing |-> patches,
                                                overlap |-> overlap]}
                            ELSE decided
    /\ ci' = ci + 1
    /\ pc' = IF ci = Len(clusters) THEN "done" ELSE "resolve"
    /\ UNCHANGED <<errors, error_points, lat, lon, clusters, fn_args, fn_result,
                   cells, previous, dbVars>>

Next ==
    \/ LoadRow
    \/ Call
    \/ ReturnEmpty
    \/ Extract
    \/ GridCell
    \/ GridNextRow
    \/ RunDbscan
    \/ ResolveCluster

Spec == Init /\ [][Next]_vars

(***************************************************************************)
(* A second family of inputs: up to MaxRows records, in the list order of  *)
(* WidePool, at positions that hold two groups of close points more than   *)
(* the clustering distance apart and a group wider than the largest patch  *)
(* area, on the rows of the equator or on the rows of 85 degrees, with at  *)
(* most one record that lacks its latitude, its longitude or its id.  The  *)
(* same list is passed to create_patches_from_errors twice.                *)
(***************************************************************************)
MaxRows == 6

WidePool ==
    << <<1, 1>>, <<4, 1>>, <<5, 1>>, <<6, 1>>, <<7, 1>>, <<6, 2>>,
       <<7, 2>>, <<6, 3>>, <<1, 4>>, <<1, 5>>, <<2, 5>> >>

\* The record of the i-th row at WidePool[k], on the rows from 'row'; a
\* record of kind "no_lat", "no_lon" or "no_id" has no such key.
WideRecord(i, k, row, kind) ==
    [error_id |-> IF kind = "no_id" THEN <<>> ELSE <<ErrorIdOf(i)>>,
     lon |-> IF kind = "no_lon" THEN <<>> ELSE <<WidePool[k][1]>>,
     lat |-> IF kind = "no_lat" THEN <<>> ELSE <<row + WidePool[k][2]>>]

\* The record has the three keys.
Complete(r) == r.error_id # <<>> /\ r.lon # <<>> /\ r.lat # <<>>

\* The place in WidePool of a complete record.
WideIndexOf(r) ==
    CHOOSE k \in 1..Len(WidePool) :
        /\ WidePool[k][1] = r.lon[1]
        /\ WidePool[k][2] = r.lat[1] % PolarRow

\* The caller collects the argument 'errors': one more record.
LoadWide ==
    /\ pc = "load"
    /\ Len(errors) < MaxRows
    /\ \E k \in 1..Len(WidePool), row \in {0, PolarRow},
          kind \in {"ok", "no_lat", "no_lon", "no_id"} :
          /\ \A i \in 1..Len(errors) :
                /\ errors[i].lat # <<>> => (errors[i].lat[1] >= PolarRow <=> row = PolarRow)
                /\ errors[i].lat = <<>> => row = 0
                /\ kind = "ok" /\ Complete(errors[i]) => k > WideIndexOf(errors[i])
                /\ kind # "ok" => Complete(errors[i])
          /\ kind # "ok" => k = 1
          /\ kind = "no_lat" => row = 0
          /\ errors' = Append(errors, WideRecord(Len(errors) + 1, k, row, kind))
    /\ UNCHANGED <<pc, error_points, patches, lat, lon, clusters, ci,
                   fn_args, fn_result, callVars, dbVars>>

\* The call has returned; the caller passes the same list again.
CallAgain ==
    /\ pc = "done"
    /\ previous = <<>>
    /\ previous' = <<[errors |-> errors, patches |-> patches]>>
    /\ pc' = "start"
    /\ UNCHANGED <<errors, error_points, patches, lat, lon, clusters, ci,
                   fn_args, fn_result, cells, examined, decided, dbVars>>

\* The records of the list that have the three keys, in their order.
WithoutIncomplete(errs) ==
    SelectIdx(errs, {i \in 1..Len(errs) : Complete(errs[i])}, 1)

\* The call has returned; the caller passes the list again, without the
\* records that lack a key.
CallWithoutIncomplete ==
    /\ pc = "done"
    /\ previous = <<>>
    /\ WithoutIncomplete(errors) # errors
    /\ previous' = <<[errors |-> errors, patches |-> patches]>>
    /\ errors' = WithoutIncomplete(errors)
    /\ pc' = "start"
    /\ UNCHANGED <<error_points, patches, lat, lon, clusters, ci,
                   fn_args, fn_result, cells, examined, decided, dbVars>>

NextWide ==
    \/ LoadWide
    \/ Call
    \/ ReturnEmpty
    \/ Extract
    \/ GridCell
    \/ GridNextRow
    \/ RunDbscan
    \/ ResolveCluster
    \/ CallAgain
    \/ CallWithoutIncomplete

SpecWide == Init /\ [][NextWide]_vars

(***************************************************************************)
(* _generate_patch_id (lines 379-393).  The result is a record: 'text' is  *)
(* the string up to the digest, 'md5' is <<>> or <<s>> for the first 12    *)
(* hex characters of md5(s).  The digest is kept symbolic, so two results  *)
(* with a digest are equal exactly when the hashed strings are.            *)
(***************************************************************************)
COUNTRY_CODE == <<"K", "Z">>

\* '_'.join(strs)
RECURSIVE Join(_)
Join(strs) ==
    IF strs = <<>> THEN <<>>
    ELSE IF Len(strs) = 1 THEN strs[1]
    ELSE strs[1] \o <<"_">> \o Join(Tail(strs))

\* str(n) for n >= 0
RECURSIVE IntToStr(_)
IntToStr(n) ==
    LET d == <<"0", "1", "2", "3", "4", "5", "6", "7", "8", "9">>[(n % 10) + 1]
    IN  IF n < 10 THEN <<d>> ELSE IntToStr(n \div 10) \o <<d>>

\* Lines 386-389.
ShortIdMutant(id_str) ==
    IF Len(id_str) > 8 \/ "-" \in SeqToSet(id_str)
    THEN SubSeq(id_str, 1, Min2(8, Len(id_str)))
    ELSE id_str

ShortId(id_str) ==
    IF Len(id_str) > 8 /\ "-" \in SeqToSet(id_str)
    THEN SubSeq(id_str, 1, 8)
    ELSE id_str

\* Line 381.
SortedIdsMutant(osmose_ids) == osmose_ids

SortedIds(osmose_ids) == Sorted(osmose_ids)

GeneratePatchId(osmose_ids) ==
    LET sorted_ids == SortedIds(osmose_ids)
    IN  IF Len(sorted_ids) <= 3
        THEN [text |-> COUNTRY_CODE \o <<"_">>
                       \o Join([i \in 1..Len(sorted_ids) |-> ShortId(sorted_ids[i])]),
              md5 |-> <<>>]
        ELSE [text |-> COUNTRY_CODE \o <<"_", "M", "E", "R", "G", "E", "D", "_">>
                       \o IntToStr(Len(sorted_ids)) \o <<"_">>,
              md5 |-> <<Join(sorted_ids)>>]

(***************************************************************************)
(* calculate_priority and calculate_difficulty (src/utils_file.py), on     *)
(* areas in thousandths of a km2.                                          *)
(***************************************************************************)
\* Lines 107-116: error_count / max(area_km2, 1) against 5, 3 and 1.
CalculatePriorityMutant(error_count, area_km2) ==
    IF error_count * AreaScale > 5 * area_km2 THEN 9
    ELSE IF error_count * AreaScale > 3 * area_km2 THEN 7
    ELSE IF error_count * AreaScale > 1 * area_km2 THEN 5
    ELSE 3

CalculatePriorityOrderMutant(error_count, area_km2) ==
    LET d == Max2(area_km2, AreaScale)
    IN  IF error_count * AreaScale > 5 * d THEN 9
        ELSE IF error_count * AreaScale > 3 * d THEN 5
        ELSE IF error_count * AreaScale > 1 * d THEN 7
        ELSE 3

CalculatePriority(error_count, area_km2) ==
    LET d == Max2(area_km2, AreaScale)
    IN  IF error_count * AreaScale > 5 * d THEN 9
        ELSE IF error_count * AreaScale > 3 * d THEN 7
        ELSE IF error_count * AreaScale > 1 * d THEN 5
        ELSE 3

\* Lines 120-125.
CalculateDifficultyMutant(area_km2, error_count) ==
    IF area_km2 >= 25 * AreaScale \/ error_count >= 30 THEN "hard"
    ELSE IF area_km2 >= 15 * AreaScale \/ error_count >= 15 THEN "medium"
    ELSE "easy"

CalculateDifficulty(area_km2, error_count) ==
    IF area_km2 > 25 * AreaScale \/ error_count > 30 THEN "hard"
    ELSE IF area_km2 > 15 * AreaScale \/ error_count > 15 THEN "medium"
    ELSE "easy"

(***************************************************************************)
(* The pure functions, each applied to arguments drawn from bounded sets.  *)
(***************************************************************************)
engineIdle ==
    /\ errors = <<>>
    /\ error_points = <<>>
    /\ patches = <<>>
    /\ lat = 0
    /\ lon = 0
    /\ clusters = <<>>
    /\ ci = 0
    /\ callIdle
    /\ dbIdle

Prefix8 == <<"a", "b", "c", "d", "e", "f", "1", "2">>

\* Error ids: longer than 8 characters with a '-', after or within the
\* first 8; with a '-' and at most 8 characters; longer than 8 without;
\* short.
IdPool ==
    { Prefix8 \o <<"-", "3">>,
      <<"1", "2", "3", "4", "-", "6", "7", "8", "9">>,
      <<"1", "2", "3", "4", "-", "6", "7", "8">>,
      <<"a", "b", "-", "4">>,
      Prefix8 \o <<"9">>,
      <<"e", "1">> }

InitId ==
    /\ engineIdle
    /\ pc = "id_call"
    /\ \E n \in 0..MaxIds : fn_args \in [1..n -> IdPool]
    /\ fn_result = <<>>

CallGeneratePatchId ==
    /\ pc = "id_call"
    /\ fn_result' = <<GeneratePatchId(fn_args)>>
    /\ pc' = "id_done"
    /\ UNCHANGED <<errors, error_points, patches, lat, lon, clusters, ci, fn_args,
                   callVars, dbVars>>

NextId == CallGeneratePatchId

SpecId == InitId /\ [][NextId]_vars

AreaValues == {(h * AreaScale) \div 2 : h \in 0..MaxAreaHalves}

InitScore ==
    /\ engineIdle
    /\ pc = "score_call"
    /\ fn_args \in [error_count : 0..MaxErrorCount, area_km2 : AreaValues]
    /\ fn_result = <<>>

CallScore ==
    /\ pc = "score_call"
    /\ fn_result' =
          <<[priority |-> CalculatePriority(fn_args.error_count, fn_args.area_km2),
             difficulty |-> CalculateDifficulty(fn_args.area_km2, fn_args.error_count)]>>
    /\ pc' = "score_done"
    /\ UNCHANGED <<errors, error_points, patches, lat, lon, clusters, ci, fn_args,
                   callVars, dbVars>>

NextScore == CallScore

SpecScore == InitScore /\ [][NextScore]_vars

(***************************************************************************)
(* scale_polygon and calculate_area_km2 (src/utils_file.py) on vertices.   *)
(* A polygon is [pts |-> the vertices of its ring, without the closing     *)
(* repetition of the first, den |-> the common denominator of their        *)
(* coordinates]; a number is a fraction [num, den] in lowest terms.        *)
(***************************************************************************)
MaxSide == 2
MaxFactor == 3

Fraction(num, den) ==
    LET g == Gcd(Abs(num), Abs(den))
        sign == IF den < 0 THEN -1 ELSE 1
    IN  [num |-> sign * (num \div g), den |-> sign * (den \div g)]

\* Sum over the edges i.. of (p + q) * (p x q) on one axis: 6 * area *
\* centroid, in the units of the vertices.
RECURSIVE CentroidSum(_, _, _)
CentroidSum(pts, axis, i) ==
    IF i > Len(pts) THEN 0
    ELSE LET p == pts[i]
             q == pts[IF i = Len(pts) THEN 1 ELSE i + 1]
         IN  (p[axis] + q[axis]) * (p[1] * q[2] - q[1] * p[2])
             + CentroidSum(pts, axis, i + 1)

\* polygon.centroid of a polygon with an area.
PolygonCentroid(polygon) ==
    [x |-> Fraction(CentroidSum(polygon.pts, 1, 1),
                    3 * Shoelace(polygon.pts, 1) * polygon.den),
     y |-> Fraction(CentroidSum(polygon.pts, 2, 1),
                    3 * Shoelace(polygon.pts, 1) * polygon.den)]

\* Lines 92-99 on one coordinate v of a polygon with whole coordinates,
\* centroid coordinate c and factor num / den; the result has the
\* denominator c.den * den.
ScaledCoordinateMutant(v, c, num, den) == (v * c.den - c.num) * num

ScaledCoordinate(v, c, num, den) == (v * c.den - c.num) * num + c.num * den

\* scale_polygon(polygon, num / den) for a polygon with whole coordinates.
\* The two centroid coordinates are brought to one denominator first.
scale_polygon(polygon, num, den) ==
    LET c == PolygonCentroid(polygon)
        l == (c.x.den * c.y.den) \div Gcd(c.x.den, c.y.den)
        cx == [num |-> c.x.num * (l \div c.x.den), den |-> l]
        cy == [num |-> c.y.num * (l \div c.y.den), den |-> l]
    IN  [pts |-> [i \in 1..Len(polygon.pts) |->
                    <<ScaledCoordinate(polygon.pts[i][1], cx, num, den),
                      ScaledCoordinate(polygon.pts[i][2], cy, num, den)>>],
         den |-> l * den]

\* calculate_area_km2(polygon): the planar shoelace area, in square
\* degrees, and the latitude of the centroid, whose cosine converts it.
calculate_area_km2(polygon) ==
    [planar |-> Fraction(Abs(Shoelace(polygon.pts, 1)), 2 * polygon.den * polygon.den),
     lat |-> PolygonCentroid(polygon).y]

Reverse(l) == [i \in 1..Len(l) |-> l[Len(l) + 1 - i]]

\* The polygons of the check: the hulls of 3 or 4 points of a small
\* lattice, in either orientation.
InitScale ==
    /\ engineIdle
    /\ pc = "scale_call"
    /\ \E S \in SUBSET ((0..MaxSide) \X (0..MaxSide)), rev \in BOOLEAN,
          num \in 1..MaxFactor, den \in 1..2 :
          /\ Cardinality(S) \in {3, 4}
          /\ ~Degenerate(S)
          /\ fn_args = [polygon |-> [pts |-> IF rev THEN Reverse(ConvexHull(S))
                                             ELSE ConvexHull(S),
                                     den |-> 1],
                        num |-> num, den |-> den]
    /\ fn_result = <<>>

CallScalePolygon ==
    /\ pc = "scale_call"
    /\ fn_result' = <<scale_polygon(fn_args.polygon, fn_args.num, fn_args.den)>>
    /\ pc' = "scale_done"
    /\ UNCHANGED <<errors, error_points, patches, lat, lon, clusters, ci, fn_args,
                   callVars, dbVars>>

NextScale == CallScalePolygon

SpecScale == InitScale /\ [][NextScale]_vars

(***************************************************************************)
(* _create_patch_from_errors called on its own: the first n points of      *)
(* WidePool, on the rows of the equator or of 85 degrees, without a base   *)
(* polygon or with a rectangle, among them rectangles without area.        *)
(***************************************************************************)
InitPatch ==
    /\ engineIdle
    /\ pc = "patch_call"
    /\ \E n \in 0..MaxPoints, row \in {0, PolarRow},
          w \in 0..MaxLon, h \in 0..MaxLon, based \in BOOLEAN :
          /\ ~based => (w = 0 /\ h = 0)
          /\ fn_args =
                [error_points |->
                    ErrorPoints([i \in 1..n |-> WideRecord(i, i, row, "ok")]),
                 base_polygon |->
                    IF based THEN <<<<1, row + 1, 1 + w, row + 1 + h>>>> ELSE <<>>]
    /\ fn_result = <<>>

CallCreatePatchFromErrors ==
    /\ pc = "patch_call"
    /\ fn_result' = <<CreatePatchFromErrors(fn_args.error_points, fn_args.base_polygon)>>
    /\ pc' = "patch_done"
    /\ UNCHANGED <<errors, error_points, patches, lat, lon, clusters, ci, fn_args,
                   callVars, dbVars>>

NextPatch == CallCreatePatchFromErrors

SpecPatch == InitPatch /\ [][NextPatch]_vars

(***************************************************************************)
(* create_import_batch and insert_patches (lines 254-377) on the tables    *)
(* of src/db_schema.py.  A table is the list of its rows, a NULL is <<>>   *)
(* and a value v is <<v>>.  osmose_errors holds MaxMembers errors, and     *)
(* 'patches' is a list of up to MaxPatches patches, each built by          *)
(* _create_patch_from_errors of three or more of them; osmose_patches is   *)
(* empty or holds one of these patches from an earlier run.  One step of   *)
(* the loop is one action, for each way the step can end:                  *)
(*   pc = "insert_idle"  no call is running                                *)
(*   pc = "insert_loop"  inside the loop, at patches[patch_index]          *)
(*   pc = "insert_done"  the call has returned its three counts            *)
(***************************************************************************)
MaxMembers == 4
MaxPatches == 2
MaxBatches == 2

\* The patch of the errors numbered in I.
PatchOf(I) ==
    CreatePatchFromErrors(
        ErrorPoints(SelectIdx([i \in 1..MaxMembers |-> WideRecord(i, i, 0, "ok")], I, 1)),
        <<>>)[1]

PatchPool ==
    {PatchOf(I) : I \in {J \in SUBSET (1..MaxMembers) :
                            Cardinality(J) >= MIN_ERRORS_PER_PATCH}}

\* The row that lines 298-336 insert.
PatchRow(patch, patch_id, batch) ==
    [patch_id |-> patch_id,
     osmose_ids |-> patch.osmose_ids,
     area_km2 |-> patch.area_km2,
     error_count |-> patch.error_count,
     import_batch |-> batch,
     priority |-> CalculatePriority(patch.error_count, patch.area_km2),
     difficulty |-> CalculateDifficulty(patch.area_km2, patch.error_count)]

\* The duplicate check without its SELECT.
IsStoredMutant(rows, patch_id) == FALSE

\* Lines 288-293: SELECT COUNT(*) ... WHERE patch_id = %s is above 0.
IsStored(rows, patch_id) == \E i \in 1..Len(rows) : rows[i].patch_id = patch_id

\* Lines 339-344: UPDATE osmose_errors SET patch_id for each id of the patch.
AssignPatch(rows, patch_id, osmose_ids) ==
    [i \in 1..Len(rows) |->
        IF rows[i].error_id \in SeqToSet(osmose_ids)
        THEN [rows[i] EXCEPT !.patch_id = <<patch_id>>]
        ELSE rows[i]]

InitInsert ==
    /\ errors = <<>>
    /\ error_points = <<>>
    /\ lat = 0
    /\ lon = 0
    /\ clusters = <<>>
    /\ ci = 0
    /\ callIdle
    /\ fnIdle
    /\ pc = "insert_idle"
    /\ \E n \in 0..MaxPatches : patches \in [1..n -> PatchPool]
    /\ \E stored \in {<<>>} \cup {<<p>> : p \in PatchPool} :
          /\ osmose_patches =
                [i \in 1..Len(stored) |->
                    PatchRow(stored[i], GeneratePatchId(stored[i].osmose_ids), <<>>)]
          /\ osmose_errors =
                [i \in 1..MaxMembers |->
                    [error_id |-> ErrorIdOf(i),
                     patch_id |->
                        IF stored # <<>> /\ ErrorIdOf(i) \in SeqToSet(stored[1].osmose_ids)
                        THEN <<GeneratePatchId(stored[1].osmose_ids)>>
                        ELSE <<>>]]
    /\ import_batches = <<>>
    /\ batch_id = <<>>
    /\ counts = <<>>
    /\ patch_index = 0
    /\ patch_outcomes = <<>>
    /\ operations_run = <<>>
    /\ transaction = "idle"

\* Lines 254-274: a new row with the next serial number, whose counts are
\* the defaults, and self.batch_id.
CreateImportBatch ==
    /\ pc = "insert_idle"
    /\ Len(import_batches) < MaxBatches
    /\ import_batches' =
          Append(import_batches,
                 [batch_id |-> Len(import_batches) + 1,
                  patches_count |-> 0, errors_count |-> 0, new_patches |-> 0,
                  duplicate_patches |-> 0, failed_patches |-> 0])
    /\ batch_id' = <<Len(import_batches) + 1>>
    /\ UNCHANGED <<errors, pc, error_points, patches, lat, lon, clusters, ci,
                   fn_args, fn_result, callVars, osmose_patches, osmose_errors,
                   counts, patch_index, patch_outcomes, operations_run, transaction>>

\* Lines 276-283: the call, up to the head of the loop.
InsertCall ==
    /\ pc = "insert_idle"
    /\ counts' = [success_count |-> 0, duplicate_count |-> 0, error_count |-> 0]
    /\ patch_index' = 1
    /\ patch_outcomes' = <<>>
    /\ fn_result' = <<>>
    /\ pc' = "insert_loop"
    /\ UNCHANGED <<errors, error_points, patches, lat, lon, clusters, ci,
                   fn_args, callVars, osmose_patches, osmose_errors,
                   import_batches, batch_id, operations_run, transaction>>

\* Lines 285-295: the ID of the patch is stored; nothing is written.
InsertDuplicate ==
    /\ pc = "insert_loop"
    /\ patch_index <= Len(patches)
    /\ IsStored(osmose_patches, GeneratePatchId(patches[patch_index].osmose_ids))
    /\ counts' = [counts EXCEPT !.duplicate_count = @ + 1]
    /\ patch_outcomes' = Append(patch_outcomes, "duplicate")
    /\ patch_index' = patch_index + 1
    /\ UNCHANGED <<errors, pc, error_points, patches, lat, lon, clusters, ci,
                   fn_args, fn_result, callVars, osmose_patches, osmose_errors,
                   import_batches, batch_id, operations_run, transaction>>

\* Lines 285-349: the row is inserted, the errors of the patch are given
\* its ID, and both are committed.
InsertSuccess ==
    /\ pc = "insert_loop"
    /\ patch_index <= Len(patches)
    /\ LET patch == patches[patch_index]
           patch_id == GeneratePatchId(patch.osmose_ids)
       IN  /\ ~IsStored(osmose_patches, patch_id)
           /\ osmose_patches' = Append(osmose_patches, PatchRow(patch, patch_id, batch_id))
           /\ osmose_errors' = AssignPatch(osmose_errors, patch_id, patch.osmose_ids)
    /\ counts' = [counts EXCEPT !.success_count = @ + 1]
    /\ patch_outcomes' = Append(patch_outcomes, "success")
    /\ patch_index' = patch_index + 1
    /\ UNCHANGED <<errors, pc, error_points, patches, lat, lon, clusters, ci,
                   fn_args, fn_result, callVars, import_batches, batch_id, operations_run, transaction>>

\* Lines 298-355: the INSERT, an UPDATE or the commit raises; the
\* transaction is rolled back and the loop goes on.
InsertFailure ==
    /\ pc = "insert_loop"
    /\ patch_index <= Len(patches)
    /\ ~IsStored(osmose_patches, GeneratePatchId(patches[patch_index].osmose_ids))
    /\ counts' = [counts EXCEPT !.error_count = @ + 1]
    /\ patch_outcomes' = Append(patch_outcomes, "failed")
    /\ patch_index' = patch_index + 1
    /\ UNCHANGED <<errors, pc, error_points, patches, lat, lon, clusters, ci,
                   fn_args, fn_result, callVars, osmose_patches, osmose_errors,
                   import_batches, batch_id, operations_run, transaction>>

RECURSIVE SumOfIds(_)
SumOfIds(l) == IF l = <<>> THEN 0 ELSE Len(Head(l).osmose_ids) + SumOfIds(Tail(l))

\* Lines 357-377: the statistics of the batch self.batch_id, and the
\* three counts returned.
InsertFinish ==
    /\ pc = "insert_loop"
    /\ patch_index > Len(patches)
    /\ import_batches' =
          [i \in 1..Len(import_batches) |->
              IF <<import_batches[i].batch_id>> = batch_id
              THEN [batch_id |-> import_batches[i].batch_id,
                    patches_count |-> counts.success_count + counts.duplicate_count
                                      + counts.error_count,
                    errors_count |-> SumOfIds(patches),
                    new_patches |-> counts.success_count,
                    duplicate_patches |-> counts.duplicate_count,
                    failed_patches |-> counts.error_count]
              ELSE import_batches[i]]
    /\ fn_result' = <<<<counts.success_count, counts.duplicate_count, counts.error_count>>>>
    /\ pc' = "insert_done"
    /\ UNCHANGED <<errors, error_points, patches, lat, lon, clusters, ci,
                   fn_args, callVars, osmose_patches, osmose_errors, batch_id,
                   counts, patch_index, patch_outcomes, operations_run, transaction>>

\* The call has returned; the caller is about to pass the same list again.
InsertAgain ==
    /\ pc = "insert_done"
    /\ previous = <<>>
    /\ previous' = <<[result |-> fn_result[1], patch_outcomes |-> patch_outcomes,
                      osmose_patches |-> osmose_patches,
                      osmose_errors |-> osmose_errors]>>
    /\ pc' = "insert_idle"
    /\ UNCHANGED <<errors, error_points, patches, lat, lon, clusters, ci,
                   fn_args, fn_result, cells, examined, decided, dbVars>>

NextInsert ==
    \/ CreateImportBatch
    \/ InsertCall
    \/ InsertDuplicate
    \/ InsertSuccess
    \/ InsertFailure
    \/ InsertFinish
    \/ InsertAgain

SpecInsert == InitInsert /\ [][NextInsert]_vars

(***************************************************************************)
(* insert_patches on patches of errors whose ids are like those of         *)
(* IdPool: two ids longer than 8 characters that agree up to the '-' at    *)
(* the ninth, and two short ones.                                          *)
(***************************************************************************)
InsertIds ==
    << Prefix8 \o <<"-", "3">>, Prefix8 \o <<"-", "4">>, <<"a", "b", "-", "4">>, <<"e", "1">> >>

\* The patch of the errors with the ids numbered in I.
PatchOfIds(I) ==
    CreatePatchFromErrors(
        ErrorPoints(SelectIdx([i \in 1..Len(InsertIds) |->
                                  [error_id |-> <<InsertIds[i]>>,
                                   lon |-> <<WidePool[i][1]>>,
                                   lat |-> <<WidePool[i][2]>>]], I, 1)),
        <<>>)[1]

InitInsertIds ==
    /\ errors = <<>>
    /\ error_points = <<>>
    /\ lat = 0
    /\ lon = 0
    /\ clusters = <<>>
    /\ ci = 0
    /\ callIdle
    /\ fnIdle
    /\ pc = "insert_idle"
    /\ \E n \in 0..MaxPatches :
          patches \in [1..n -> {PatchOfIds(I) :
                                   I \in {J \in SUBSET (1..Len(InsertIds)) :
                                             Cardinality(J) >= MIN_ERRORS_PER_PATCH}}]
    /\ osmose_patches = <<>>
    /\ osmose_errors =
          [i \in 1..Len(InsertIds) |-> [error_id |-> InsertIds[i], patch_id |-> <<>>]]
    /\ import_batches = <<>>
    /\ batch_id = <<>>
    /\ counts = <<>>
    /\ patch_index = 0
    /\ patch_outcomes = <<>>
    /\ operations_run = <<>>
    /\ transaction = "idle"

SpecInsertIds == InitInsertIds /\ [][NextInsert]_vars

(***************************************************************************)
(* insert_patches statement by statement, with the transaction of the      *)
(* connection.  osmose_patches and osmose_errors are the tables as the     *)
(* connection sees them, uncommitted writes included; previous[1] holds    *)
(* the tables as committed.  ci is the place in patch['osmose_ids'] of the *)
(* UPDATE loop.                                                            *)
(*   pc = "tx_idle"    before the call                                     *)
(*   pc = "tx_select"  at the SELECT of the patch patches[patch_index]     *)
(*   pc = "tx_insert"  at its INSERT                                       *)
(*   pc = "tx_update"  at the UPDATE of its ci-th id                       *)
(*   pc = "tx_commit"  at success_count += 1 and the commit                *)
(*   pc = "tx_done"    the call has returned                               *)
(***************************************************************************)
\* The except branch without line 354.
RollbackMutant(committed, working) == working

\* Line 354: self.conn.rollback() gives up what was written since the last
\* commit.
Rollback(committed, working) == committed

\* The tables as the connection sees them.
Working == [osmose_patches |-> osmose_patches, osmose_errors |-> osmose_errors]

InitInsertTx ==
    /\ errors = <<>>
    /\ error_points = <<>>
    /\ lat = 0
    /\ lon = 0
    /\ clusters = <<>>
    /\ ci = 0
    /\ cells = <<>>
    /\ examined = <<>>
    /\ decided = {}
    /\ fnIdle
    /\ pc = "tx_idle"
    /\ \E n \in 0..MaxPatches : patches \in [1..n -> PatchPool]
    /\ \E stored \in {<<>>} \cup {<<p>> : p \in PatchPool} :
          /\ osmose_patches =
                [i \in 1..Len(stored) |->
                    PatchRow(stored[i], GeneratePatchId(stored[i].osmose_ids), <<>>)]
          /\ osmose_errors =
                [i \in 1..MaxMembers |->
                    [error_id |-> ErrorIdOf(i),
                     patch_id |->
                        IF stored # <<>> /\ ErrorIdOf(i) \in SeqToSet(stored[1].osmose_ids)
                        THEN <<GeneratePatchId(stored[1].osmose_ids)>>
                        ELSE <<>>]]
    /\ previous = <<Working>>
    /\ import_batches =
          <<[batch_id |-> 1, patches_count |-> 0, errors_count |-> 0,
             new_patches |-> 0, duplicate_patches |-> 0, failed_patches |-> 0]>>
    /\ batch_id = <<1>>
    /\ counts = <<>>
    /\ patch_index = 0
    /\ patch_outcomes = <<>>
    /\ operations_run = <<>>
    /\ transaction = "idle"

\* Lines 276-283.
TxCall ==
    /\ pc = "tx_idle"
    /\ counts' = [success_count |-> 0, duplicate_count |-> 0, error_count |-> 0]
    /\ patch_index' = 1
    /\ patch_outcomes' = <<>>
    /\ pc' = "tx_select"
    /\ UNCHANGED <<errors, error_points, patches, lat, lon, clusters, ci,
                   fn_args, fn_result, callVars, osmose_patches, osmose_errors,
                   import_batches, batch_id, operations_run, transaction>>

\* Lines 285-295: the SELECT counts a row; duplicate_count and continue.
TxSelectDuplicate ==
    /\ pc = "tx_select"
    /\ patch_index <= Len(patches)
    /\ IsStored(osmose_patches, GeneratePatchId(patches[patch_index].osmose_ids))
    /\ counts' = [counts EXCEPT !.duplicate_count = @ + 1]
    /\ patch_outcomes' = Append(patch_outcomes, "duplicate")
    /\ patch_index' = patch_index + 1
    /\ UNCHANGED <<errors, pc, error_points, patches, lat, lon, clusters, ci,
                   fn_args, fn_result, callVars, osmose_patches, osmose_errors,
                   import_batches, batch_id, operations_run, transaction>>

\* Lines 285-293: the SELECT counts no row.
TxSelectNew ==
    /\ pc = "tx_select"
    /\ patch_index <= Len(patches)
    /\ ~IsStored(osmose_patches, GeneratePatchId(patches[patch_index].osmose_ids))
    /\ pc' = "tx_insert"
    /\ UNCHANGED <<errors, error_points, patches, lat, lon, clusters, ci,
                   fn_args, fn_result, callVars, dbVars>>

\* Lines 297-336: the INSERT, not yet committed.
TxInsert ==
    /\ pc = "tx_insert"
    /\ LET patch == patches[patch_index]
       IN  osmose_patches' =
              Append(osmose_patches,
                     PatchRow(patch, GeneratePatchId(patch.osmose_ids), batch_id))
    /\ ci' = 1
    /\ pc' = "tx_update"
    /\ UNCHANGED <<errors, error_points, patches, lat, lon, clusters,
                   fn_args, fn_result, callVars, osmose_errors, import_batches,
                   batch_id, counts, patch_index, patch_outcomes, operations_run, transaction>>

\* Lines 339-344: one UPDATE of the loop over patch['osmose_ids'], not yet
\* committed.
TxUpdate ==
    /\ pc = "tx_update"
    /\ ci <= Len(patches[patch_index].osmose_ids)
    /\ LET patch == patches[patch_index]
       IN  osmose_errors' =
              AssignPatch(osmose_errors, GeneratePatchId(patch.osmose_ids),
                          <<patch.osmose_ids[ci]>>)
    /\ ci' = ci + 1
    /\ UNCHANGED <<errors, pc, error_points, patches, lat, lon, clusters,
                   fn_args, fn_result, callVars, osmose_patches, import_batches,
                   batch_id, counts, patch_index, patch_outcomes, operations_run, transaction>>

\* Line 339: the loop over patch['osmose_ids'] is over.
TxUpdated ==
    /\ pc = "tx_update"
    /\ ci > Len(patches[patch_index].osmose_ids)
    /\ ci' = 0
    /\ pc' = "tx_commit"
    /\ UNCHANGED <<errors, error_points, patches, lat, lon, clusters,
                   fn_args, fn_result, callVars, dbVars>>

\* Lines 346-347: success_count += 1 and the commit.
TxCommit ==
    /\ pc = "tx_commit"
    /\ counts' = [counts EXCEPT !.success_count = @ + 1]
    /\ previous' = <<Working>>
    /\ patch_outcomes' = Append(patch_outcomes, "success")
    /\ patch_index' = patch_index + 1
    /\ pc' = "tx_select"
    /\ UNCHANGED <<errors, error_points, patches, lat, lon, clusters, ci,
                   fn_args, fn_result, cells, examined, decided, osmose_patches,
                   osmose_errors, import_batches, batch_id, operations_run, transaction>>

\* Lines 351-355: the SELECT, the INSERT, an UPDATE or the commit raises
\* (the commit after line 346 has counted the patch); error_count, the
\* rollback and continue.
TxRaise ==
    /\ pc \in {"tx_select", "tx_insert", "tx_update", "tx_commit"}
    /\ patch_index <= Len(patches)
    /\ counts' = [counts EXCEPT
                     !.success_count = IF pc = "tx_commit" THEN @ + 1 ELSE @,
                     !.error_count = @ + 1]
    /\ osmose_patches' = Rollback(previous[1], Working).osmose_patches
    /\ osmose_errors' = Rollback(previous[1], Working).osmose_errors
    /\ patch_outcomes' = Append(patch_outcomes, "failed")
    /\ patch_index' = patch_index + 1
    /\ ci' = 0
    /\ pc' = "tx_select"
    /\ UNCHANGED <<errors, error_points, patches, lat, lon, clusters,
                   fn_args, fn_result, callVars, import_batches, batch_id,
                   operations_run, transaction>>

\* Lines 357-377: the statistics of the batch, committed, and the three
\* counts returned.
TxFinish ==
    /\ pc = "tx_select"
    /\ patch_index > Len(patches)
    /\ import_batches' =
          [i \in 1..Len(import_batches) |->
              IF <<import_batches[i].batch_id>> = batch_id
              THEN [batch_id |-> import_batches[i].batch_id,
                    patches_count |-> counts.success_count + counts.duplicate_count
                                      + counts.error_count,
                    errors_count |-> SumOfIds(patches),
                    new_patches |-> counts.success_count,
                    duplicate_patches |-> counts.duplicate_count,
                    failed_patches |-> counts.error_count]
              ELSE import_batches[i]]
    /\ previous' = <<Working>>
    /\ fn_result' = <<<<counts.success_count, counts.duplicate_count, counts.error_count>>>>
    /\ pc' = "tx_done"
    /\ UNCHANGED <<errors, error_points, patches, lat, lon, clusters, ci,
                   fn_args, cells, examined, decided, osmose_patches, osmose_errors,
                   batch_id, counts, patch_index, patch_outcomes, operations_run, transaction>>

NextInsertTx ==
    \/ TxCall
    \/ TxSelectDuplicate
    \/ TxSelectNew
    \/ TxInsert
    \/ TxUpdate
    \/ TxUpdated
    \/ TxCommit
    \/ TxRaise
    \/ TxFinish

SpecInsertTx == InitInsertTx /\ [][NextInsertTx]_vars

(***************************************************************************)
(* main and run_maintenance of src/maintenance.py.  fn_args is the parsed  *)
(* command line with, once it has been read, the answer typed at the       *)
(* prompt; fn_result is <<>> until main returns and then <<code>>.         *)
(*   pc = "main_start"  the arguments are parsed                           *)
(*   pc = "main_input"  main waits at input("Type 'YES' to continue: ")    *)
(*   pc = "main_run"    inside run_maintenance, at operations[ci]          *)
(*   pc = "main_done"   main has returned                                  *)
(***************************************************************************)
MaxOperations == 2

\* The choices of --operations (lines 289-291).
OperationChoices ==
    {"cleanup_old_batches", "remove_orphaned_errors", "reset_errors",
     "delete_patches", "vacuum", "report"}

\* Line 307 with reset_errors forgotten.
destructive_opsMutant == {"delete_patches"}

\* Line 307.
destructive_ops == {"reset_errors", "delete_patches"}

\* What may be typed at the prompt.
Responses == {"YES", "yes", "Y", "YES ", ""}

\* Lines 299-304: without --operations the operations are ['report'].
EffectiveOperations(args) ==
    IF args.operations = <<>> THEN <<"report">> ELSE args.operations

\* Line 308.
DestructiveRequested(args) ==
    \E i \in 1..Len(EffectiveOperations(args)) :
        EffectiveOperations(args)[i] \in destructive_ops

\* The tables before main: the errors, a patch from an earlier run or
\* none, and an import batch or none.
InitMaint ==
    /\ errors = <<>>
    /\ error_points = <<>>
    /\ patches = <<>>
    /\ lat = 0
    /\ lon = 0
    /\ clusters = <<>>
    /\ ci = 0
    /\ cells = <<>>
    /\ examined = <<>>
    /\ decided = {}
    /\ pc = "main_start"
    /\ \E n \in 0..MaxOperations, report \in BOOLEAN, confirm \in BOOLEAN :
          \E ops \in [1..n -> OperationChoices] :
              fn_args = [operations |-> ops, report |-> report,
                         confirm |-> confirm, response |-> <<>>]
    /\ fn_result = <<>>
    /\ \E stored \in {<<>>} \cup {<<p>> : p \in PatchPool} :
          /\ osmose_patches =
                [i \in 1..Len(stored) |->
                    PatchRow(stored[i], GeneratePatchId(stored[i].osmose_ids), <<>>)]
          /\ osmose_errors =
                [i \in 1..MaxMembers |->
                    [error_id |-> ErrorIdOf(i),
                     patch_id |->
                        IF stored # <<>> /\ ErrorIdOf(i) \in SeqToSet(stored[1].osmose_ids)
                        THEN <<GeneratePatchId(stored[1].osmose_ids)>>
                        ELSE <<>>]]
    /\ \E batches \in 0..1 :
          import_batches =
              [i \in 1..batches |->
                  [batch_id |-> i, patches_count |-> 0, errors_count |-> 0,
                   new_patches |-> 0, duplicate_patches |-> 0, failed_patches |-> 0]]
    /\ previous = <<[osmose_patches |-> osmose_patches,
                     osmose_errors |-> osmose_errors,
                     import_batches |-> import_batches]>>
    /\ batch_id = <<>>
    /\ counts = <<>>
    /\ patch_index = 0
    /\ patch_outcomes = <<>>
    /\ operations_run = <<>>
    /\ transaction = "idle"

\* Lines 299-313: a destructive operation without --confirm; main
\* returns 1.
MainRefuse ==
    /\ pc = "main_start"
    /\ DestructiveRequested(fn_args)
    /\ ~fn_args.confirm
    /\ fn_args' = [fn_args EXCEPT !.operations = EffectiveOperations(fn_args)]
    /\ fn_result' = <<1>>
    /\ pc' = "main_done"
    /\ UNCHANGED <<errors, error_points, patches, lat, lon, clusters, ci,
                   callVars, dbVars>>

\* Lines 299-318: a destructive operation with --confirm; main asks.
MainAsk ==
    /\ pc = "main_start"
    /\ DestructiveRequested(fn_args)
    /\ fn_args.confirm
    /\ fn_args' = [fn_args EXCEPT !.operations = EffectiveOperations(fn_args)]
    /\ pc' = "main_input"
    /\ UNCHANGED <<errors, error_points, patches, lat, lon, clusters, ci,
                   fn_result, callVars, dbVars>>

\* Lines 318-321: the answer is not 'YES'; main returns 0.
MainCancel ==
    /\ pc = "main_input"
    /\ \E response \in Responses \ {"YES"} :
          fn_args' = [fn_args EXCEPT !.response = <<response>>]
    /\ fn_result' = <<0>>
    /\ pc' = "main_done"
    /\ UNCHANGED <<errors, error_points, patches, lat, lon, clusters, ci,
                   callVars, dbVars>>

\* Lines 318-325: the answer is 'YES'; run_maintenance is called.
MainConfirmed ==
    /\ pc = "main_input"
    /\ fn_args' = [fn_args EXCEPT !.response = <<"YES">>]
    /\ ci' = 1
    /\ pc' = "main_run"
    /\ UNCHANGED <<errors, error_points, patches, lat, lon, clusters,
                   fn_result, callVars, dbVars>>

\* Lines 299-325: no destructive operation; run_maintenance is called.
MainProceed ==
    /\ pc = "main_start"
    /\ ~DestructiveRequested(fn_args)
    /\ fn_args' = [fn_args EXCEPT !.operations = EffectiveOperations(fn_args)]
    /\ ci' = 1
    /\ pc' = "main_run"
    /\ UNCHANGED <<errors, error_points, patches, lat, lon, clusters,
                   fn_result, callVars, dbVars>>

\* The rows with patch_id set to NULL unless the patch_id is one of 'kept'.
Unassign(rows, kept) ==
    [i \in 1..Len(rows) |->
        IF rows[i].patch_id # <<>> /\ rows[i].patch_id[1] \notin kept
        THEN [rows[i] EXCEPT !.patch_id = <<>>]
        ELSE rows[i]]

\* Lines 243-258: one operation of the list.  cleanup_old_batches (lines
\* 30-64) deletes the batches older than 30 days, here all or none;
\* remove_orphaned_errors (66-80), reset_unprocessed_errors (82-95) and
\* delete_all_patches (97-114) write osmose_errors and osmose_patches;
\* vacuum and report change no row.
RunOperation ==
    /\ pc = "main_run"
    /\ ci <= Len(fn_args.operations)
    /\ LET operation == fn_args.operations[ci]
           stored == {osmose_patches[i].patch_id : i \in 1..Len(osmose_patches)}
       IN  /\ import_batches' \in
                 IF operation = "cleanup_old_batches"
                 THEN {import_batches, <<>>}
                 ELSE {import_batches}
           /\ osmose_errors' =
                 IF operation = "remove_orphaned_errors"
                 THEN Unassign(osmose_errors, stored)
                 ELSE IF operation \in {"reset_errors", "delete_patches"}
                 THEN Unassign(osmose_errors, {})
                 ELSE osmose_errors
           /\ osmose_patches' =
                 IF operation = "delete_patches" THEN <<>> ELSE osmose_patches
           /\ operations_run' = Append(operations_run, operation)
    /\ ci' = ci + 1
    /\ UNCHANGED <<errors, pc, error_points, patches, lat, lon, clusters,
                   fn_args, fn_result, callVars, batch_id, counts, patch_index,
                   patch_outcomes, transaction>>

\* Lines 262-265 and 327-328: the list is done; main returns 0.
MainReturn ==
    /\ pc = "main_run"
    /\ ci > Len(fn_args.operations)
    /\ fn_result' = <<0>>
    /\ pc' = "main_done"
    /\ UNCHANGED <<errors, error_points, patches, lat, lon, clusters, ci,
                   fn_args, callVars, dbVars>>

NextMaint ==
    \/ MainRefuse
    \/ MainAsk
    \/ MainCancel
    \/ MainConfirmed
    \/ MainProceed
    \/ RunOperation
    \/ MainReturn

SpecMaint == InitMaint /\ [][NextMaint]_vars

(***************************************************************************)
(* PatchesCreator.run (lines 433-486), run after run on the same tables,   *)
(* with the maintenance operation reset_errors between two runs.  The rows *)
(* of osmose_errors carry their coordinates; they are at places of         *)
(* WidePool on the rows of the equator.                                    *)
(*   pc = "run_idle"     no run is going on                                *)
(*   pc = "start" .. "done"   inside create_patches_from_errors            *)
(*   pc = "insert_loop", "insert_done"   inside insert_patches             *)
(*   pc = "run_done"     run is at its return                              *)
(***************************************************************************)
\* Line 60: WHERE patch_id IS NULL.
Unprocessed(rows) == {i \in 1..Len(rows) : rows[i].patch_id = <<>>}

\* Lines 45-72: the rows without a patch, as the dict of each.
LoadUnprocessedErrors(rows) ==
    LET loaded == SelectIdx(rows, Unprocessed(rows), 1)
    IN  [i \in 1..Len(loaded) |->
            [error_id |-> <<loaded[i].error_id>>,
             lon |-> loaded[i].lon,
             lat |-> loaded[i].lat]]

InitRun ==
    /\ errors = <<>>
    /\ error_points = <<>>
    /\ patches = <<>>
    /\ lat = 0
    /\ lon = 0
    /\ clusters = <<>>
    /\ ci = 0
    /\ fnIdle
    /\ callIdle
    /\ pc = "run_idle"
    /\ osmose_patches = <<>>
    /\ \E I \in {J \in SUBSET (1..Len(WidePool)) : Cardinality(J) <= MaxPoints} :
          osmose_errors =
             [i \in 1..Cardinality(I) |->
                 LET k == SelectIdx([j \in 1..Len(WidePool) |-> j], I, 1)[i]
                 IN  [error_id |-> ErrorIdOf(i),
                      patch_id |-> <<>>,
                      lon |-> <<WidePool[k][1]>>,
                      lat |-> <<WidePool[k][2]>>]]
    /\ import_batches = <<>>
    /\ batch_id = <<>>
    /\ counts = <<>>
    /\ patch_index = 0
    /\ patch_outcomes = <<>>
    /\ operations_run = <<>>
    /\ transaction = "idle"

\* Lines 436-447: create_import_batch, load_unprocessed_errors, and either
\* the return of line 443 or the call of create_patches_from_errors.
RunLoad ==
    /\ pc = "run_idle"
    /\ Len(import_batches) < MaxBatches
    /\ import_batches' =
          Append(import_batches,
                 [batch_id |-> Len(import_batches) + 1,
                  patches_count |-> 0, errors_count |-> 0, new_patches |-> 0,
                  duplicate_patches |-> 0, failed_patches |-> 0])
    /\ batch_id' = <<Len(import_batches) + 1>>
    /\ errors' = LoadUnprocessedErrors(osmose_errors)
    /\ pc' = IF errors' = <<>> THEN "run_done" ELSE "start"
    /\ UNCHANGED <<error_points, patches, lat, lon, clusters, ci,
                   fn_args, fn_result, callVars, osmose_patches, osmose_errors,
                   counts, patch_index, patch_outcomes, operations_run, transaction>>

\* Lines 449-451: no patch was created; return.
RunNoPatches ==
    /\ pc = "done"
    /\ patches = <<>>
    /\ pc' = "run_done"
    /\ UNCHANGED <<errors, error_points, patches, lat, lon, clusters, ci,
                   fn_args, fn_result, callVars, dbVars>>

\* Line 454 and lines 276-283: insert_patches is called with the patches.
RunInsertCall ==
    /\ pc = "done"
    /\ patches # <<>>
    /\ counts' = [success_count |-> 0, duplicate_count |-> 0, error_count |-> 0]
    /\ patch_index' = 1
    /\ patch_outcomes' = <<>>
    /\ fn_result' = <<>>
    /\ pc' = "insert_loop"
    /\ UNCHANGED <<errors, error_points, patches, lat, lon, clusters, ci,
                   fn_args, callVars, osmose_patches, osmose_errors,
                   import_batches, batch_id, operations_run, transaction>>

\* Lines 456-479: the summary is logged and run returns the batch.
RunReturn ==
    /\ pc = "insert_done"
    /\ pc' = "run_done"
    /\ UNCHANGED <<errors, error_points, patches, lat, lon, clusters, ci,
                   fn_args, fn_result, callVars, dbVars>>

\* Lines 484-485: the connection is closed and the process ends; the
\* tables stay, and 'previous' keeps the patches this run generated.
RunExit ==
    /\ pc = "run_done"
    /\ previous' = <<[errors |-> errors, patches |-> patches]>>
    /\ errors' = <<>>
    /\ patches' = <<>>
    /\ patch_outcomes' = <<>>
    /\ fn_result' = <<>>
    /\ pc' = "run_idle"
    /\ UNCHANGED <<error_points, lat, lon, clusters, ci, fn_args, cells,
                   examined, decided, osmose_patches, osmose_errors,
                   import_batches, batch_id, counts, patch_index, operations_run, transaction>>

\* maintenance.py lines 82-95, between two runs: every patch_id is set to
\* NULL and the patches stay stored.
ResetErrors ==
    /\ pc = "run_idle"
    /\ operations_run = <<>>
    /\ osmose_errors' = Unassign(osmose_errors, {})
    /\ operations_run' = <<"reset_errors">>
    /\ UNCHANGED <<errors, pc, error_points, patches, lat, lon, clusters, ci,
                   fn_args, fn_result, callVars, osmose_patches, import_batches,
                   batch_id, counts, patch_index, patch_outcomes, transaction>>

NextRun ==
    \/ RunLoad
    \/ Extract
    \/ GridCell
    \/ GridNextRow
    \/ RunDbscan
    \/ ResolveCluster
    \/ RunNoPatches
    \/ RunInsertCall
    \/ InsertDuplicate
    \/ InsertSuccess
    \/ InsertFailure
    \/ InsertFinish
    \/ RunReturn
    \/ RunExit
    \/ ResetErrors

SpecRun == InitRun /\ [][NextRun]_vars

(***************************************************************************)
(* OsmoseIssuesLoader.insert_errors (src/osmose_issues_loader.py, lines    *)
(* 113-204) statement by statement, on a psycopg2 connection without       *)
(* autocommit: the first statement opens a transaction, a statement the    *)
(* server rejects aborts it, every statement on an aborted transaction     *)
(* raises until a rollback, and a commit of an aborted transaction rolls   *)
(* it back.  'errors' is the argument, ci the place of the loop in it,     *)
(* osmose_errors the table as the connection sees it and previous[1] the   *)
(* table as committed.  A record is a dict of the Osmose API: its id,      *)
(* lat, lon, date (<<>>, in ISO format or not) and a username of some      *)
(* length.                                                                 *)
(*   pc = "ld_idle"  before the call                                       *)
(*   pc = "ld_loop"  at the head of the loop, at errors[ci]                *)
(*   pc = "ld_done"  the call has returned                                 *)
(***************************************************************************)
MaxRecords == 3
MaxTail == 2

\* Line 174: a commit every 100 inserted records.
CommitInterval == 100

\* db_schema.py line 44: username VARCHAR(100).
UsernameLimit == 100

\* The rows of osmose_errors before the call.
StoredBefore == <<[error_id |-> 1, patch_id |-> <<>>]>>

\* The id of a record at place i of the list that no row stored before
\* the call has.
FreshId(i) == i + 1

\* A record of the list at place i: as it should be, with latitude 0, with
\* the id of a stored row, with the id of the record before it, with a date
\* that is not in ISO format, or with a username longer than the column.
LoaderKinds == {"ok", "zero_lat", "stored", "again", "bad_date", "long_name"}

LoaderRecord(i, kind) ==
    [id |-> IF kind = "stored" THEN <<StoredBefore[1].error_id>>
            ELSE IF kind = "again" /\ i > 1 THEN <<FreshId(i - 1)>>
            ELSE <<FreshId(i)>>,
     lat |-> IF kind = "zero_lat" THEN <<0>> ELSE <<1>>,
     lon |-> <<1>>,
     date |-> IF kind = "bad_date" THEN <<"text">> ELSE <<"iso">>,
     username |-> IF kind = "long_name" THEN UsernameLimit + 1 ELSE 8]

\* Line 127: lat and lon and error_id, by the truth value of each.
LoaderValid(r) ==
    TruthyNumber(r.lat) /\ TruthyNumber(r.lon) /\ TruthyNumber(r.id)

\* Lines 133-138: the SELECT counts a row with the id.
HasError(rows, error_id) == \E i \in 1..Len(rows) : rows[i].error_id = error_id

InitLoad ==
    /\ error_points = <<>>
    /\ patches = <<>>
    /\ lat = 0
    /\ lon = 0
    /\ clusters = <<>>
    /\ ci = 0
    /\ fnIdle
    /\ cells = <<>>
    /\ examined = <<>>
    /\ decided = {}
    /\ pc = "ld_idle"
    /\ \E run \in {0, CommitInterval} :
          \E n \in 0..(IF run = 0 THEN MaxRecords ELSE MaxTail) :
              \E kinds \in [1..n -> LoaderKinds] :
                  errors = [i \in 1..(run + n) |->
                               IF i <= run THEN LoaderRecord(i, "ok")
                               ELSE LoaderRecord(i, kinds[i - run])]
    /\ osmose_patches = <<>>
    /\ osmose_errors = StoredBefore
    /\ previous = <<StoredBefore>>
    /\ import_batches =
          <<[batch_id |-> 1, patches_count |-> 0, errors_count |-> 0,
             new_patches |-> 0, duplicate_patches |-> 0, failed_patches |-> 0]>>
    /\ batch_id = <<1>>
    /\ counts = <<>>
    /\ patch_index = 0
    /\ patch_outcomes = <<>>
    /\ operations_run = <<>>
    /\ transaction = "idle"

\* Lines 113-119.
LdCall ==
    /\ pc = "ld_idle"
    /\ counts' = [success_count |-> 0, duplicate_count |-> 0, error_count |-> 0]
    /\ ci' = 1
    /\ pc' = "ld_loop"
    /\ UNCHANGED <<errors, error_points, patches, lat, lon, clusters,
                   fn_args, fn_result, callVars, osmose_patches, osmose_errors,
                   import_batches, batch_id, patch_index, patch_outcomes,
                   operations_run, transaction>>

\* What every branch of the loop body leaves alone.
LdFrame ==
    UNCHANGED <<errors, pc, error_points, patches, lat, lon, clusters,
                fn_args, fn_result, cells, examined, decided, osmose_patches,
                import_batches, batch_id, patch_index, patch_outcomes,
                operations_run>>

\* Lines 122-130: the record lacks a coordinate or the id.
LdInvalid ==
    /\ pc = "ld_loop"
    /\ ci <= Len(errors)
    /\ ~LoaderValid(errors[ci])
    /\ counts' = [counts EXCEPT !.error_count = @ + 1]
    /\ ci' = ci + 1
    /\ LdFrame
    /\ UNCHANGED <<osmose_errors, previous, transaction>>

\* Lines 133-136 and 178-181: the transaction is aborted, so the SELECT
\* raises; the except branch counts the record and goes on.
LdSelectRaises ==
    /\ pc = "ld_loop"
    /\ ci <= Len(errors)
    /\ LoaderValid(errors[ci])
    /\ transaction = "aborted"
    /\ counts' = [counts EXCEPT !.error_count = @ + 1]
    /\ ci' = ci + 1
    /\ LdFrame
    /\ UNCHANGED <<osmose_errors, previous, transaction>>

\* Lines 133-140: the SELECT counts a row.
LdDuplicate ==
    /\ pc = "ld_loop"
    /\ ci <= Len(errors)
    /\ LoaderValid(errors[ci])
    /\ transaction # "aborted"
    /\ HasError(osmose_errors, errors[ci].id[1])
    /\ counts' = [counts EXCEPT !.duplicate_count = @ + 1]
    /\ transaction' = "open"
    /\ ci' = ci + 1
    /\ LdFrame
    /\ UNCHANGED <<osmose_errors, previous>>

\* Lines 167-168 and 178-181: datetime.fromisoformat raises while the
\* parameters of the INSERT are built; nothing is sent to the server.
LdDateRaises ==
    /\ pc = "ld_loop"
    /\ ci <= Len(errors)
    /\ LoaderValid(errors[ci])
    /\ transaction # "aborted"
    /\ ~HasError(osmose_errors, errors[ci].id[1])
    /\ errors[ci].date \notin {<<>>, <<"iso">>}
    /\ counts' = [counts EXCEPT !.error_count = @ + 1]
    /\ transaction' = "open"
    /\ ci' = ci + 1
    /\ LdFrame
    /\ UNCHANGED <<osmose_errors, previous>>

\* Lines 143-170 and 178-181: the server rejects the INSERT, which aborts
\* the transaction; the except branch counts the record and goes on,
\* without a rollback.
LdInsertRejected ==
    /\ pc = "ld_loop"
    /\ ci <= Len(errors)
    /\ LoaderValid(errors[ci])
    /\ transaction # "aborted"
    /\ ~HasError(osmose_errors, errors[ci].id[1])
    /\ errors[ci].date \in {<<>>, <<"iso">>}
    /\ errors[ci].username > UsernameLimit
    /\ counts' = [counts EXCEPT !.error_count = @ + 1]
    /\ transaction' = "aborted"
    /\ ci' = ci + 1
    /\ LdFrame
    /\ UNCHANGED <<osmose_errors, previous>>

\* Lines 143-176: the INSERT, success_count, and the commit when
\* success_count is a multiple of 100.
LdInsert ==
    /\ pc = "ld_loop"
    /\ ci <= Len(errors)
    /\ LoaderValid(errors[ci])
    /\ transaction # "aborted"
    /\ ~HasError(osmose_errors, errors[ci].id[1])
    /\ errors[ci].date \in {<<>>, <<"iso">>}
    /\ errors[ci].username <= UsernameLimit
    /\ osmose_errors' =
          Append(osmose_errors, [error_id |-> errors[ci].id[1], patch_id |-> <<>>])
    /\ counts' = [counts EXCEPT !.success_count = @ + 1]
    /\ IF (counts.success_count + 1) % CommitInterval = 0
       THEN /\ previous' = <<osmose_errors'>>
            /\ transaction' = "idle"
       ELSE /\ previous' = previous
            /\ transaction' = "open"
    /\ ci' = ci + 1
    /\ LdFrame

\* Lines 183-204: the final commit, which rolls an aborted transaction
\* back; the statistics of the batch, committed; the three counts
\* returned.
LdReturn ==
    /\ pc = "ld_loop"
    /\ ci > Len(errors)
    /\ IF transaction = "aborted"
       THEN /\ osmose_errors' = previous[1]
            /\ previous' = previous
       ELSE /\ osmose_errors' = osmose_errors
            /\ previous' = <<osmose_errors>>
    /\ transaction' = "idle"
    /\ import_batches' =
          [i \in 1..Len(import_batches) |->
              IF <<import_batches[i].batch_id>> = batch_id
              THEN [import_batches[i] EXCEPT
                       !.errors_count = counts.success_count,
                       !.new_patches = counts.success_count,
                       !.duplicate_patches = counts.duplicate_count,
                       !.failed_patches = counts.error_count]
              ELSE import_batches[i]]
    /\ fn_result' = <<<<counts.success_count, counts.duplicate_count, counts.error_count>>>>
    /\ pc' = "ld_done"
    /\ UNCHANGED <<errors, error_points, patches, lat, lon, clusters, ci,
                   fn_args, cells, examined, decided, osmose_patches,
                   batch_id, counts, patch_index, patch_outcomes, operations_run>>

NextLoad ==
    \/ LdCall
    \/ LdInvalid
    \/ LdSelectRaises
    \/ LdDuplicate
    \/ LdDateRaises
    \/ LdInsertRejected
    \/ LdInsert
    \/ LdReturn

SpecLoad == InitLoad /\ [][NextLoad]_vars

(***************************************************************************)
(* Properties of create_patches_from_errors (specification Spec).          *)
(***************************************************************************)
Members(patch) == SeqToSet(patch.osmose_ids)

ErrorsOf(cluster) == [m \in 1..Len(cluster.members) |-> cluster.members[m].error]

\* Some patch of the output was built from the points of this cluster.
ClusterEmitted(cluster) ==
    \E j \in 1..Len(patches) :
        patches[j].base = "cluster" /\ patches[j].errors = ErrorsOf(cluster)

\* More than half of the area of the cluster's convex hull lies inside the
\* rectangle of this grid patch.
HullMostlyInside(cluster, patch) ==
    /\ patch.base = "grid"
    /\ patch.geometry.kind = "box"
    /\ OverlapsRect(ClusterPolygon(cluster.members), patch.geometry.rect)

\* C1: in the list one call returns, the osmose_ids of any two different
\* patches are disjoint.
C1_PatchMembersDisjoint ==
    pc = "done" =>
        \A i \in 1..Len(patches), j \in 1..Len(patches) :
            i # j => Members(patches[i]) \cap Members(patches[j]) = {}

\* C2: every emitted patch has error_count equal to the number of its
\* osmose_ids, which are distinct and at least MIN_ERRORS_PER_PATCH; no
\* patch is built from fewer member points than that.
C2_ErrorCountIsMemberCount ==
    \A i \in 1..Len(patches) :
        /\ patches[i].error_count = Len(patches[i].osmose_ids)
        /\ patches[i].error_count = Cardinality(Members(patches[i]))
        /\ patches[i].error_count >= 3
        /\ Len(patches[i].errors) >= 3

\* C2 witness: a finished call that emitted a grid patch and a cluster
\* patch.
C2_Witness ==
    /\ pc = "done"
    /\ \E i \in 1..Len(patches) : patches[i].base = "grid"
    /\ \E i \in 1..Len(patches) : patches[i].base = "cluster"

\* C3: a cluster whose convex hull has more than half of its area inside
\* an accepted grid patch is not in the output.
C3_CoveredClusterNotEmitted ==
    \A k \in 1..Len(clusters), i \in 1..Len(patches) :
        HullMostlyInside(clusters[k], patches[i]) => ~ClusterEmitted(clusters[k])

\* C3 witness: a finished call in which a cluster was found, lay mostly
\* inside a grid patch, and is absent from the output.
C3_Witness ==
    /\ pc = "done"
    /\ \E k \in 1..Len(clusters), i \in 1..Len(patches) :
          /\ HullMostlyInside(clusters[k], patches[i])
          /\ ~ClusterEmitted(clusters[k])

\* The input points all lie in one grid cell, the cell of the sweep whose
\* corner is the corner of their bounding box: [min, min + grid size) on
\* both axes.
AllInOneCell ==
    /\ \A i \in 1..Len(errors) :
          TruthyNumber(errors[i].lon) /\ TruthyNumber(errors[i].lat)
    /\ error_points # <<>>
    /\ MaxLonOf < MinLon + GridSizeDegrees
    /\ MaxLatOf < MinLat + GridSizeDegrees

\* C4: at least MIN_ERRORS_PER_PATCH points, all within one grid cell,
\* give exactly one patch, whose geometry is the rectangle of that cell.
C4_OneCellOnePatch ==
    (pc = "done" /\ Len(errors) >= MIN_ERRORS_PER_PATCH /\ AllInOneCell) =>
        /\ Len(patches) = 1
        /\ patches[1].geometry = [kind |-> "box", rect |-> CellRect(MinLon, MinLat)]

\* The input points are pairwise no further apart than the clustering
\* distance.
PairwiseClose ==
    \A i \in 1..Len(errors), j \in 1..Len(errors) :
        /\ errors[i].lon # <<>> /\ errors[i].lat # <<>>
        /\ errors[j].lon # <<>> /\ errors[j].lat # <<>>
        /\ (errors[i].lon[1] - errors[j].lon[1]) * (errors[i].lon[1] - errors[j].lon[1])
           + (errors[i].lat[1] - errors[j].lat[1]) * (errors[i].lat[1] - errors[j].lat[1])
           < CLUSTER_DISTANCE_KM * CLUSTER_DISTANCE_KM

\* C5: at least MIN_ERRORS_PER_PATCH points, pairwise closer than the
\* clustering distance, none of whose grid cells collects
\* MIN_ERRORS_PER_PATCH points, give exactly one patch, built from a
\* cluster, whose osmose_ids are all the input ids.
C5_TightPointsOneClusterPatch ==
    (/\ pc = "done"
     /\ Len(errors) >= MIN_ERRORS_PER_PATCH
     /\ PairwiseClose
     /\ \A i \in 1..Len(patches) : patches[i].base # "grid") =>
        /\ Len(patches) = 1
        /\ patches[1].base = "cluster"
        /\ patches[1].osmose_ids = Sorted([i \in 1..Len(errors) |-> errors[i].error_id[1]])

(***************************************************************************)
(* Properties of _generate_patch_id (specification SpecId).                *)
(***************************************************************************)
\* The list l in the order perm (a permutation of its indices).
Permuted(l, perm) == [i \in 1..Len(l) |-> l[perm[i]]]

\* C6: the derived ID is the same for every order in which the member ids
\* are passed.
C6_PatchIdIgnoresOrder ==
    pc = "id_done" =>
        \A perm \in Permutations(1..Len(fn_args)) :
            GeneratePatchId(Permuted(fn_args, perm)) = fn_result[1]

\* C6 witness: an ID was derived from a list that is not in sorted order.
C6_Witness ==
    /\ pc = "id_done"
    /\ Len(fn_args) >= 2
    /\ \E i \in 1..(Len(fn_args) - 1) : StrLess(fn_args[i + 1], fn_args[i])

\* The ids of l in ascending order: the arrangement of l in which no id is
\* followed by a smaller one.
Ascending(l) ==
    LET arr == {Permuted(l, perm) : perm \in Permutations(1..Len(l))}
    IN  CHOOSE s \in arr : \A i \in 1..Len(s), j \in 1..Len(s) :
                              i < j => ~StrLess(s[j], s[i])

\* An id as the format shows it: its first 8 characters when it has a '-'
\* and more than 8 characters, else the id itself.
Shown(id) ==
    IF (\E i \in 1..Len(id) : id[i] = "-") /\ Len(id) > 8
    THEN [i \in 1..8 |-> id[i]]
    ELSE id

\* The strings of l, each preceded by '_'.
RECURSIVE Underscored(_, _)
Underscored(l, n) ==
    IF n = 0 THEN <<>> ELSE Underscored(l, n - 1) \o <<"_">> \o l[n]

\* C7: with the ids in ascending order, up to 3 ids give the country code
\* and the shown ids, joined by '_'; more give
\* '{country}_MERGED_{count}_{digest}', the digest being that of the ids
\* joined by '_'.
C7_PatchIdFormat ==
    pc = "id_done" =>
        LET s == Ascending(fn_args)
            n == Len(fn_args)
            r == fn_result[1]
        IN  IF n <= 3
            THEN /\ r.md5 = <<>>
                 /\ r.text = IF n = 0 THEN <<"K", "Z", "_">>
                             ELSE <<"K", "Z">>
                                  \o Underscored([i \in 1..n |-> Shown(s[i])], n)
            ELSE /\ r.text = <<"K", "Z", "_", "M", "E", "R", "G", "E", "D", "_",
                               <<"4", "5", "6", "7", "8", "9">>[n - 3], "_">>
                 /\ r.md5 = <<Tail(Underscored(s, n))>>

\* C7 witness: an ID of up to 3 ids, one of which is shown shortened and
\* one verbatim although it has a '-'.
C7_Witness ==
    /\ pc = "id_done"
    /\ Len(fn_args) <= 3
    /\ \E i \in 1..Len(fn_args) : Shown(fn_args[i]) # fn_args[i]
    /\ \E i \in 1..Len(fn_args) :
          Shown(fn_args[i]) = fn_args[i] /\ "-" \in SeqToSet(fn_args[i])

(***************************************************************************)
(* Properties of calculate_priority and calculate_difficulty               *)
(* (specification SpecScore).  km2(n) is n km2 in the unit of areas.       *)
(***************************************************************************)
km2(n) == n * AreaScale

\* max(area_km2, 1)
AtLeastOneKm2(area) == IF area < km2(1) THEN km2(1) ELSE area

\* error_count / max(area_km2, 1) > n
DensityAbove(error_count, area, n) ==
    error_count * AreaScale > n * AtLeastOneKm2(area)

\* C8: 'hard' iff area > 25 or count > 30; else 'medium' iff area > 15 or
\* count > 15; else 'easy'; the boundary values are not promoted.
C8_DifficultyThresholds ==
    pc = "score_done" =>
        LET a == fn_args.area_km2
            c == fn_args.error_count
            d == fn_result[1].difficulty
        IN  /\ d \in {"hard", "medium", "easy"}
            /\ d = "hard" <=> (a > km2(25) \/ c > 30)
            /\ d = "medium" <=> (a <= km2(25) /\ c <= 30 /\ (a > km2(15) \/ c > 15))
            /\ d = "easy" <=> (a <= km2(15) /\ c <= 15)
            /\ (a = km2(25) /\ c = 30) => d = "medium"
            /\ (a = km2(15) /\ c = 15) => d = "easy"

\* C8 witness: the boundary call, area 25 km2 with 30 errors.
C8_Witness ==
    /\ pc = "score_done"
    /\ fn_args.area_km2 = km2(25)
    /\ fn_args.error_count = 30

\* C9: the priority is 9, 7, 5 or 3 as the density error_count /
\* max(area_km2, 1) is above 5, in (3, 5], in (1, 3] or at most 1; an area
\* below 1 km2 counts as 1 km2.
C9_PriorityByDensity ==
    pc = "score_done" =>
        LET a == fn_args.area_km2
            c == fn_args.error_count
            p == fn_result[1].priority
        IN  /\ p \in {3, 5, 7, 9}
            /\ p = 9 <=> DensityAbove(c, a, 5)
            /\ p = 7 <=> (DensityAbove(c, a, 3) /\ ~DensityAbove(c, a, 5))
            /\ p = 5 <=> (DensityAbove(c, a, 1) /\ ~DensityAbove(c, a, 3))
            /\ p = 3 <=> ~DensityAbove(c, a, 1)
            /\ a < km2(1) => p = CalculatePriority(c, km2(1))

\* C9 witness: a call with an area below 1 km2 whose errors per actual
\* km2 exceed 5 while the priority is not 9.
C9_Witness ==
    /\ pc = "score_done"
    /\ fn_args.area_km2 < km2(1)
    /\ fn_args.error_count * AreaScale > 5 * fn_args.area_km2
    /\ fn_result[1].priority = 7

\* density of (c1, a1) <= density of (c2, a2)
DensityLeq(c1, a1, c2, a2) ==
    c1 * AtLeastOneKm2(a2) <= c2 * AtLeastOneKm2(a1)

\* C10: a pair of no smaller density never has a smaller priority.
C10_PriorityMonotone ==
    pc = "score_done" =>
        \A c2 \in 0..MaxErrorCount, a2 \in AreaValues :
            DensityLeq(fn_args.error_count, fn_args.area_km2, c2, a2)
                => fn_result[1].priority <= CalculatePriority(c2, a2)

\* C10 witness: a call whose priority is exceeded by the priority of a
\* denser pair and exceeds that of a sparser one.
C10_Witness ==
    /\ pc = "score_done"
    /\ \E c2 \in 0..MaxErrorCount, a2 \in AreaValues :
          /\ DensityLeq(fn_args.error_count, fn_args.area_km2, c2, a2)
          /\ fn_result[1].priority < CalculatePriority(c2, a2)
    /\ \E c2 \in 0..MaxErrorCount, a2 \in AreaValues :
          /\ DensityLeq(c2, a2, fn_args.error_count, fn_args.area_km2)
          /\ CalculatePriority(c2, a2) < fn_result[1].priority

(***************************************************************************)
(* Properties of create_patches_from_errors on the second family of       *)
(* inputs (specification SpecWide).                                        *)
(***************************************************************************)
\* The polygon a patch was built on, before any scaling.
InitialPolygon(patch) ==
    IF patch.geometry.kind = "scaled" THEN patch.geometry.of ELSE patch.geometry

InBounds(area) ==
    /\ area >= MIN_PATCH_AREA_KM2 * AreaScale
    /\ area <= MAX_PATCH_AREA_KM2 * AreaScale

\* C11: every emitted patch has area_km2 within [MIN_PATCH_AREA_KM2,
\* MAX_PATCH_AREA_KM2]: a polygon whose area is within the bounds is kept
\* and reported with that area; one whose area is outside is scaled, once,
\* and reported with the target area.
C11_AreaWithinBounds ==
    \A i \in 1..Len(patches) :
        LET initial == CalculateAreaKm2(InitialPolygon(patches[i]))
        IN  /\ InBounds(patches[i].area_km2)
            /\ InitialPolygon(patches[i]).kind # "scaled"
            /\ InBounds(initial) =>
                  /\ patches[i].geometry.kind # "scaled"
                  /\ patches[i].area_km2 = initial
            /\ ~InBounds(initial) =>
                  /\ patches[i].geometry.kind = "scaled"
                  /\ patches[i].area_km2 = TARGET_PATCH_AREA_KM2 * AreaScale

\* C11 witness: a returned list with a patch that was kept and a patch
\* that was scaled down from above the bounds.
C11_Witness ==
    /\ pc = "done"
    /\ \E i \in 1..Len(patches) : patches[i].geometry.kind # "scaled"
    /\ \E i \in 1..Len(patches) :
          /\ patches[i].geometry.kind = "scaled"
          /\ CalculateAreaKm2(patches[i].geometry.of) > MAX_PATCH_AREA_KM2 * AreaScale

\* C13: a second call with the same list returns the same sequence of
\* patches as the first: same order, members, geometry and statistics.
C13_SecondCallSameResult ==
    (pc = "done" /\ previous # <<>> /\ previous[1].errors = errors) =>
        patches = previous[1].patches

\* C13 witness: the second call has returned, after examining two
\* clusters, with a grid-derived and a cluster-derived patch.
C13_Witness ==
    /\ pc = "done"
    /\ previous # <<>>
    /\ previous[1].errors = errors
    /\ Len(examined) >= 2
    /\ \E i \in 1..Len(patches) : patches[i].base = "grid"
    /\ \E i \in 1..Len(patches) : patches[i].base = "cluster"

\* C14: a record that lacks its latitude, its longitude or its id is
\* skipped: it is no point of the call and no member of a patch, the list
\* returned is the one the call returns for the list without such
\* records, and it is empty when no other record is left.
C14_IncompleteRecordsSkipped ==
    /\ pc \notin {"load", "start"} =>
          /\ \A k \in 1..Len(error_points) : Complete(error_points[k].error)
          /\ Len(error_points) <= Len(WithoutIncomplete(errors))
          /\ \A i \in 1..Len(patches) : \A k \in 1..Len(patches[i].errors) :
                Complete(patches[i].errors[k])
    /\ (pc = "done" /\ WithoutIncomplete(errors) = <<>>) => patches = <<>>
    /\ (pc = "done" /\ previous # <<>>
        /\ errors = WithoutIncomplete(previous[1].errors)) =>
          patches = previous[1].patches

\* C14 witness: a call on a list with a record that lacks a key returned
\* patches, and the call on the list without that record has returned.
C14_Witness ==
    /\ pc = "done"
    /\ previous # <<>>
    /\ previous[1].errors # errors
    /\ patches # <<>>

\* The point lies on the side that the two rectangles share.
OnSharedSide(p, r1, r2) ==
    \/ r1[3] = r2[1] /\ p[1] = r1[3] /\ r1[2] = r2[2] /\ r1[2] < p[2] /\ p[2] < r1[4]
    \/ r1[4] = r2[2] /\ p[2] = r1[4] /\ r1[1] = r2[1] /\ r1[1] < p[1] /\ p[1] < r1[3]

\* C17: in the grid sweep a point is collected by a cell only when it is
\* strictly inside the cell, and no point is collected by two cells.
C17_PointInAtMostOneCell ==
    \A i \in 1..Len(cells) :
        \A a \in 1..Len(cells[i].cell_errors) :
            LET e == cells[i].cell_errors[a]
                rect == cells[i].rect
            IN  /\ rect[1] < e.lon /\ e.lon < rect[3]
                /\ rect[2] < e.lat /\ e.lat < rect[4]
                /\ \A j \in 1..Len(cells) :
                      j # i => e \notin SeqToSet(cells[j].cell_errors)

\* C17 witness: the sweep has visited two adjacent cells, and a point of
\* the input lies on the side they share.
C17_Witness ==
    \E i, j \in 1..Len(cells) :
        \E k \in 1..Len(error_points) :
            OnSharedSide(PointOf(error_points[k]), cells[i].rect, cells[j].rect)

\* The visited cell is a square of the grid size and the patch has the
\* points it collected.
CellOf(patch, cell) ==
    /\ cell.rect[3] = cell.rect[1] + GridSizeDegrees
    /\ cell.rect[4] = cell.rect[2] + GridSizeDegrees
    /\ patch.osmose_ids = Sorted(IdsOf(cell.cell_errors))

\* C18 as stated: the geometry of every grid-derived patch is the
\* rectangle of its cell, not a hull and not a rescaled copy.
C18_GridGeometryIsCell ==
    \A i \in 1..Len(patches) :
        patches[i].base = "grid" =>
            \E c \in 1..Len(cells) :
                /\ CellOf(patches[i], cells[c])
                /\ patches[i].geometry = [kind |-> "box", rect |-> cells[c].rect]

\* C18: the geometry of every grid-derived patch is the rectangle of its
\* cell, never a hull of the member points, when the area of the cell is
\* within [MIN_PATCH_AREA_KM2, MAX_PATCH_AREA_KM2]; otherwise it is that
\* rectangle scaled about its centroid to the target area.
C18_GridGeometryFromCell ==
    \A i \in 1..Len(patches) :
        patches[i].base = "grid" =>
            \E c \in 1..Len(cells) :
                LET cell_polygon == [kind |-> "box", rect |-> cells[c].rect]
                IN  /\ CellOf(patches[i], cells[c])
                    /\ patches[i].geometry =
                          IF InBounds(CalculateAreaKm2(cell_polygon))
                          THEN cell_polygon
                          ELSE [kind |-> "scaled", of |-> cell_polygon]

\* C18 witness: a returned list with a grid-derived patch whose cell has
\* an area below the bounds.
C18_Witness ==
    /\ pc = "done"
    /\ \E i \in 1..Len(patches) :
          /\ patches[i].base = "grid"
          /\ patches[i].geometry.kind = "scaled"

\* The visited cells that collected at least the minimum, in the order of
\* the sweep.
FullCells ==
    SelectIdx(cells, {c \in 1..Len(cells) :
                         Len(cells[c].cell_errors) >= MIN_ERRORS_PER_PATCH}, 1)

\* The list begins with one patch for each such cell, in the order of the
\* sweep, and no other patch is grid-derived.
GridPatchesFirst ==
    /\ Len(patches) >= Len(FullCells)
    /\ \A i \in 1..Len(patches) :
          IF i <= Len(FullCells)
          THEN /\ patches[i].base = "grid"
               /\ InitialPolygon(patches[i]) = [kind |-> "box", rect |-> FullCells[i].rect]
               /\ patches[i].osmose_ids = Sorted(IdsOf(FullCells[i].cell_errors))
          ELSE patches[i].base = "cluster"

\* A step of the loop over the clusters leaves the patches of the list
\* in place and as they were.
ClusterStepKeepsPatches ==
    pc = "resolve" =>
        /\ Len(patches') >= Len(patches)
        /\ SubSeq(patches', 1, Len(patches)) = patches

\* C19: every cell of the sweep that collects at least
\* MIN_ERRORS_PER_PATCH points gives a patch, with no overlap check; the
\* grid-derived patches come before every cluster-derived patch; and no
\* patch of the list is removed or altered by a cluster candidate.
C19_GridPatchesAlwaysAccepted ==
    /\ [](pc \in {"grid", "resolve", "done"} => GridPatchesFirst)
    /\ [][ClusterStepKeepsPatches]_vars

\* C19 witness: a returned list with a grid-derived patch followed by a
\* cluster-derived patch.
C19_Witness ==
    /\ pc = "done"
    /\ \E i, j \in 1..Len(patches) :
          /\ i < j
          /\ patches[i].base = "grid"
          /\ patches[j].base = "cluster"

\* The bounding box of a polygon.
HullBox(poly) ==
    <<SetMin({poly[i][1] : i \in 1..Len(poly)}), SetMin({poly[i][2] : i \in 1..Len(poly)}),
      SetMax({poly[i][1] : i \in 1..Len(poly)}), SetMax({poly[i][2] : i \in 1..Len(poly)})>>

\* More than half of the hull of the k-th cluster of the loop lies inside
\* the polygon of a candidate accepted before it: the rectangle of a cell
\* that collected at least the minimum, or the convex hull of a cluster
\* that the loop has examined and not rejected.  The area inside another
\* hull is measured inside the bounding box of that hull, which holds at
\* least as much.
CoveredByCandidate(k) ==
    LET hull == ClusterPolygon(clusters[k].members)
    IN  \/ \E c \in 1..Len(FullCells) : OverlapsRect(hull, FullCells[c].rect)
        \/ \E j \in 1..(k - 1) :
              /\ ~examined[j].overlap
              /\ ClusterPolygon(clusters[j].members) # <<>>
              /\ OverlapsRect(hull, HullBox(ClusterPolygon(clusters[j].members)))

\* The clusters examined so far and not rejected, in the order of the loop.
AcceptedClusters ==
    SelectIdx(SubSeq(clusters, 1, Len(examined)),
              {k \in 1..Len(examined) : ~examined[k].overlap}, 1)

\* C21: a cluster candidate is rejected exactly when more than half of
\* its hull lies inside the polygon of an earlier-accepted candidate (the
\* rectangle of a grid candidate, the convex hull of a cluster
\* candidate); the working set is the accepted candidates, and the list
\* holds one patch for each of them.
C21_WorkingSetOfCandidates ==
    pc \in {"resolve", "done"} =>
        /\ \A k \in 1..Len(examined) : examined[k].overlap = CoveredByCandidate(k)
        /\ Len(patches) = Len(FullCells) + Len(AcceptedClusters)
        /\ \A a \in 1..Len(AcceptedClusters) :
              patches[Len(FullCells) + a].osmose_ids
                  = Sorted(IdsOf(AcceptedClusters[a].members))

\* C24: every record that has an id, a longitude and a latitude is in
\* the point set that the call partitions, whatever the values; a record
\* with latitude 0 or longitude 0 is not skipped.
C24_PresentRecordsKept ==
    pc \in {"grid", "resolve", "done"} =>
        \A i \in 1..Len(errors) :
            Complete(errors[i]) =>
                \E k \in 1..Len(error_points) : error_points[k].error = errors[i]

\* The point lies on an edge of the rectangle.
OnEdge(p, rect) ==
    \/ p[1] \in {rect[1], rect[3]} /\ rect[2] <= p[2] /\ p[2] <= rect[4]
    \/ p[2] \in {rect[2], rect[4]} /\ rect[1] <= p[1] /\ p[1] <= rect[3]

\* The ids of the points that some cell of the sweep collected.
CollectedIds ==
    UNION {SeqToSet(IdsOf(cells[c].cell_errors)) : c \in 1..Len(cells)}

\* The records of the input that have the three keys.
CompleteRecords == {i \in 1..Len(errors) : Complete(errors[i])}

\* C25: a point on an edge of a cell of the sweep is a member of no
\* grid-derived patch; every point whose longitude is the least of the
\* input, or whose latitude is, is collected by no cell; and when all
\* points share one longitude or one latitude the sweep visits no cell.
C25_EdgePointsInNoGridPatch ==
    pc \in {"resolve", "done"} =>
        /\ \A k \in 1..Len(error_points), c \in 1..Len(cells), i \in 1..Len(patches) :
              (OnEdge(PointOf(error_points[k]), cells[c].rect) /\ patches[i].base = "grid")
              => error_points[k].id \notin SeqToSet(patches[i].osmose_ids)
        /\ \A i \in CompleteRecords :
              (\/ \A j \in CompleteRecords : errors[i].lon[1] <= errors[j].lon[1]
               \/ \A j \in CompleteRecords : errors[i].lat[1] <= errors[j].lat[1])
              => errors[i].error_id[1] \notin CollectedIds
        /\ (error_points # <<>>
            /\ \/ Cardinality(Lons(error_points)) = 1
               \/ Cardinality(Lats(error_points)) = 1)
           => cells = <<>>

\* C25 witness: a returned list with a grid-derived patch, and a point of
\* the input on an edge of its cell.
C25_Witness ==
    /\ pc = "done"
    /\ \E i \in 1..Len(patches), c \in 1..Len(cells), k \in 1..Len(error_points) :
          /\ patches[i].base = "grid"
          /\ patches[i].osmose_ids = Sorted(IdsOf(cells[c].cell_errors))
          /\ OnEdge(PointOf(error_points[k]), cells[c].rect)

C20_ClustersInLabelOrder ==
    \A i, j \in 1..Len(examined) :
        i < j => examined[i].label < examined[j].label

(***************************************************************************)
(* Properties of _create_patch_from_errors (specification SpecPatch).      *)
(***************************************************************************)
\* The call has enough points and a base polygon without area, for which
\* the scale factor is a division by zero.
ZeroAreaCandidate ==
    /\ Len(fn_args.error_points) >= MIN_ERRORS_PER_PATCH
    /\ fn_args.base_polygon # <<>>
    /\ \/ fn_args.base_polygon[1][3] = fn_args.base_polygon[1][1]
       \/ fn_args.base_polygon[1][4] = fn_args.base_polygon[1][2]

SecondCallDone == pc = "insert_done" /\ previous # <<>>

\* The second call has inserted nothing and counted every patch as a
\* duplicate.
NothingInserted ==
    /\ fn_result[1] = <<0, Len(patches), 0>>
    /\ osmose_patches = previous[1].osmose_patches
    /\ osmose_errors = previous[1].osmose_errors

StoredPatchSkipped ==
    (/\ pc = "insert_loop"
     /\ patch_index <= Len(patches)
     /\ \E i \in 1..Len(osmose_patches) :
           osmose_patches[i].patch_id = GeneratePatchId(patches[patch_index].osmose_ids))
    => /\ osmose_patches' = osmose_patches
       /\ osmose_errors' = osmose_errors
       /\ counts' = [counts EXCEPT !.duplicate_count = @ + 1]

C23_DuplicateHasSameMembers ==
    /\ \A i, j \in 1..Len(patch_outcomes) :
          SeqToSet(patches[i].osmose_ids) # SeqToSet(patches[j].osmose_ids)
          => GeneratePatchId(patches[i].osmose_ids) # GeneratePatchId(patches[j].osmose_ids)
    /\ \A i \in 1..Len(patch_outcomes) :
          patch_outcomes[i] = "duplicate" =>
              \A r \in 1..Len(osmose_patches) :
                  osmose_patches[r].patch_id = GeneratePatchId(patches[i].osmose_ids)
                  => SeqToSet(osmose_patches[r].osmose_ids) = SeqToSet(patches[i].osmose_ids)

\* C28: after insert_patches has returned, the stored assignments agree
\* with the stored membership in both directions for the patches the call
\* inserted: every error listed in osmose_ids of an inserted patch has the
\* ID of that patch as its patch_id, and every error whose patch_id is the
\* ID of an inserted patch is listed in the osmose_ids of that patch.
C28_AssignmentsAgreeWithMembership ==
    pc = "insert_done" =>
        \A k \in 1..Len(patches) :
            patch_outcomes[k] = "success" =>
                \A i \in 1..Len(osmose_errors) :
                    (osmose_errors[i].error_id \in SeqToSet(patches[k].osmose_ids))
                    <=> (osmose_errors[i].patch_id
                            = <<GeneratePatchId(patches[k].osmose_ids)>>)

(***************************************************************************)
(* Properties of the transactions of insert_patches (specification         *)
(* SpecInsertTx).                                                          *)
(***************************************************************************)
\* The committed tables change in this step.
CommittedChanges == previous'[1] # previous[1]

\* The step commits the row of the patch at patch_index together with the
\* assignment of every one of its members, and nothing else.
CommitsWholePatch ==
    LET patch == patches[patch_index]
        patch_id == GeneratePatchId(patch.osmose_ids)
    IN  /\ patch_index <= Len(patches)
        /\ previous'[1].osmose_patches =
              Append(previous[1].osmose_patches, PatchRow(patch, patch_id, batch_id))
        /\ previous'[1].osmose_errors =
              AssignPatch(previous[1].osmose_errors, patch_id, patch.osmose_ids)
        /\ patch_outcomes' = Append(patch_outcomes, "success")

\* The step is the failure of the patch at patch_index.
PatchFails == patch_outcomes' = Append(patch_outcomes, "failed")

\* The failure is counted, nothing of the patch is kept, what was committed
\* stays committed and the loop goes to the next patch.
FailureRolledBack ==
    /\ counts'.error_count = counts.error_count + 1
    /\ previous' = previous
    /\ osmose_patches' = previous[1].osmose_patches
    /\ osmose_errors' = previous[1].osmose_errors
    /\ patch_index' = patch_index + 1
    /\ pc' = "tx_select"

\* C27: insert_patches persists each patch atomically: the row of a patch
\* and the patch_id of all its member errors are committed together or not
\* at all; a failure on a patch is rolled back and counted as failed,
\* leaves what was committed before intact, and the remaining patches are
\* still processed: when the call returns every patch has an outcome.
C27_PatchesPersistedAtomically ==
    /\ [][(CommittedChanges => CommitsWholePatch)
          /\ (PatchFails => FailureRolledBack)]_vars
    /\ [](pc = "tx_done" => /\ Len(patch_outcomes) = Len(patches)
                            /\ previous[1] = Working)

\* C27 witness: the call has returned; the first patch failed, the second
\* was inserted after it, and the patch stored before the call is still
\* there.
C27_Witness ==
    /\ pc = "tx_done"
    /\ patch_outcomes = <<"failed", "success">>
    /\ Len(previous[1].osmose_patches) = 2
    /\ patches[1] # patches[2]

(***************************************************************************)
(* Properties of PatchesCreator.run (specification SpecRun).               *)
(***************************************************************************)
\* The error with this id has a patch.
Assigned(error_id) ==
    \E i \in 1..Len(osmose_errors) :
        osmose_errors[i].error_id = error_id /\ osmose_errors[i].patch_id # <<>>

\* C29: when run finishes without raising, every error id that occurs in a
\* patch generated by that run has a non-NULL patch_id, so that an error
\* that is a member of a generated patch is not loaded again by the next
\* run, also when reset_errors has cleared the assignments in between.
C29_GeneratedMembersAssigned ==
    /\ pc = "run_done" =>
          \A k \in 1..Len(patches) :
              \A m \in 1..Len(patches[k].osmose_ids) :
                  Assigned(patches[k].osmose_ids[m])
    /\ (previous # <<>> /\ pc \in {"start", "grid", "resolve", "done"}) =>
          \A k \in 1..Len(previous[1].patches) :
              \A i \in 1..Len(errors) :
                  errors[i].error_id[1] \notin SeqToSet(previous[1].patches[k].osmose_ids)

(***************************************************************************)
(* Properties of OsmoseIssuesLoader.insert_errors (specification           *)
(* SpecLoad).                                                              *)
(***************************************************************************)
\* C30: the success count that insert_errors returns is the number of rows
\* the call has added to osmose_errors, also when the insert of a record
\* fails part-way through the list, and success + duplicate + failed is
\* the number of input records.
C30_SuccessCountIsRowsAdded ==
    pc = "ld_done" =>
        /\ fn_result[1][1] = Len(previous[1]) - Len(StoredBefore)
        /\ fn_result[1][1] + fn_result[1][2] + fn_result[1][3] = Len(errors)

(***************************************************************************)
(* Properties of main of src/maintenance.py (specification SpecMaint).     *)
(***************************************************************************)
\* The tables are as they were when main started and no operation has run.
NothingTouched ==
    /\ operations_run = <<>>
    /\ transaction = "idle"
    /\ osmose_patches = previous[1].osmose_patches
    /\ osmose_errors = previous[1].osmose_errors
    /\ import_batches = previous[1].import_batches

\* The request names reset_errors or delete_patches.
AsksForDestructive ==
    \E i \in 1..Len(fn_args.operations) :
        fn_args.operations[i] \in {"reset_errors", "delete_patches"}

\* C22: reset_errors and delete_patches are never executed unless
\* --confirm was given and the answer typed was exactly 'YES'; without
\* --confirm main returns 1, with any other answer it returns 0, and in
\* both cases no operation of the request has touched the database.
C22_DestructiveNeedsConfirmation ==
    /\ (\E i \in 1..Len(operations_run) :
           operations_run[i] \in {"reset_errors", "delete_patches"})
       => (fn_args.confirm /\ fn_args.response = <<"YES">>)
    /\ (pc = "main_done" /\ AsksForDestructive /\ ~fn_args.confirm)
       => (fn_result = <<1>> /\ NothingTouched)
    /\ (pc = "main_done" /\ AsksForDestructive /\ fn_args.confirm
        /\ fn_args.response # <<"YES">>)
       => (fn_result = <<0>> /\ NothingTouched)

\* C22 witness: main has returned after an answer other than 'YES' to a
\* request that also named an operation that is not destructive.
C22_Witness ==
    /\ pc = "main_done"
    /\ fn_args.confirm
    /\ fn_args.response \notin {<<>>, <<"YES">>}
    /\ \E i \in 1..Len(fn_args.operations) :
          fn_args.operations[i] \notin {"reset_errors", "delete_patches"}

(***************************************************************************)
(* Properties of scale_polygon and calculate_area_km2 (specification       *)
(* SpecScale).                                                             *)
(***************************************************************************)
\* The fraction a / b times the whole number n.
Times(f, n) == Fraction(f.num * n, f.den)

\* C12: the area of scale_polygon(polygon, f) is f^2 times the area of
\* polygon, measured at the same reference latitude, and scale_polygon
\* keeps the centroid and the number of vertices of the ring.
C12_ScalingSquaresArea ==
    pc = "scale_done" =>
        LET before == fn_args.polygon
            after == fn_result[1]
            f2num == fn_args.num * fn_args.num
            f2den == fn_args.den * fn_args.den
        IN  /\ Times(calculate_area_km2(after).planar, f2den)
               = Times(calculate_area_km2(before).planar, f2num)
            /\ calculate_area_km2(after).lat = calculate_area_km2(before).lat
            /\ PolygonCentroid(after) = PolygonCentroid(before)
            /\ Len(after.pts) = Len(before.pts)

\* C12 witness: a polygon whose centroid is not a lattice point was scaled
\* by a factor that is not a whole number.
C12_Witness ==
    /\ pc = "scale_done"
    /\ fn_args.den = 2 /\ fn_args.num = 3
    /\ PolygonCentroid(fn_args.polygon).x.den # 1
    /\ Len(fn_args.polygon.pts) = 4

====
